---------------------------- MODULE Spec2Model ----------------------------
(***************************************************************************)
(* A model of the merchant-grouping core of budget-tracker-web:            *)
(*   - the merchant editing cache of BudgetTrackerApp (src/js/main.js),    *)
(*   - the cleaning save with its batch / per-cell fallback,               *)
(*   - the MerchantCleaner service (src/js/services/merchant-cleaner.js),  *)
(*   - the sheet-identifier validation of SheetsAPI.                       *)
(* Strings are sequences of one-character strings, so that trimming,       *)
(* matching and replacing are computed, not assumed.  Row and column       *)
(* indices are the 0-based indices of the JavaScript arrays.               *)
(***************************************************************************)
EXTENDS Integers, Sequences, FiniteSets, TLC

(***************************************************************************)
(* Bounds of the model.                                                    *)
(***************************************************************************)
\* number of data rows of the table (row 0 is the header)
DataRows == 3
\* length of the longest merchant name given to the cleaner
MaxNameLen == 20
\* number of requests kept in the log of the wire
MaxWire == 2

(***************************************************************************)
(* Strings.                                                                *)
(***************************************************************************)
IsSpace(c) == c = " "

\* String.prototype.trim
Trim(s) ==
    LET keep == {i \in 1..Len(s) : ~IsSpace(s[i])}
    IN  IF keep = {} THEN << >>
        ELSE LET lo == CHOOSE i \in keep : \A j \in keep : i <= j
                 hi == CHOOSE i \in keep : \A j \in keep : j <= i
             IN  SubSeq(s, lo, hi)

\* truthiness of a string cell: the empty string is falsy
Truthy(s) == s # << >>

mX == <<"X">>
mY == <<"Y">>
gG == <<"G">>
gSpG == <<" ", "G">>
gH == <<"H">>
EmptyStr == << >>
Unknown == <<"U", "n", "k", "n", "o", "w", "n">>
\* getColumnValue's null
Null == <<"n", "u", "l", "l", "!">>

(***************************************************************************)
(* The row table.                                                          *)
(***************************************************************************)
\* columns of the sheet: Account, Amount, Merchant, Merchant Group
NumCols == 4
MerchantCol == 2
MerchantGroupCol == 3
Cols == 0..(NumCols - 1)
RowIdx == 1..DataRows

Header == [c \in Cols |-> IF c = 0 THEN <<"A", "c", "c">>
                          ELSE IF c = 1 THEN <<"A", "m", "t">>
                          ELSE IF c = MerchantCol THEN <<"M">>
                          ELSE <<"M", "G">>]

\* the last row as it is loaded: its merchant cell and its merchant-group cell
LastRows == {<<mY, EmptyStr>>, <<mY, gSpG>>, <<EmptyStr, gSpG>>}
\* group names the dialog's inputs and selects may carry
GroupInputs == {gG, gH, EmptyStr}
\* merchant names the dialog's actions may carry
MerchantInputs == {mX, mY}

VARIABLES
    rowsData,             \* this.rowsData
    merchantEditingCache, \* this.merchantEditingCache
    modals,               \* #merchant-edit-modal elements in the document: 0, 1, or
                          \* 2 for "two or more" (each re-opening stacks another one)
    flight,               \* the commitCachedChanges call awaiting Promise.all
    commitResult,         \* the local `success` of acceptMerchantChanges when the step
                          \* just taken is its return from commitCachedChanges
    session,              \* history: the table at session open, the rows applied since
    save,                 \* saveMerchantCleaning: its locals and what it told the user
    cleaner,              \* the MerchantCleaner instance and the call it is serving
    io,                   \* SheetsAPI: the call under way and the requests on the wire
    bulk,                 \* cleanMerchantNames: its locals and the calls it has made
    similar,              \* the smart grouping dialog: what was analysed, the groups proposed
    view,                 \* the period filter: the clock, the period and month selected,
                          \* the date and payweek cells of the rows, the list last returned
    budget,               \* this.budgetPeriod, this.budgets, the amount just entered and
                          \* the amounts just drawn
    auto,                 \* autoCleanNewMerchants: the rows it works on, the cells the
                          \* store holds for them, the writes queued, the review dialog
    categoryManager       \* CategoryManager: this.categories, this.categoryGroups,
                          \* and the calls made

cacheVars == <<rowsData, merchantEditingCache, modals, flight, commitResult, session>>
\* the state of the computations made on request, outside the three services
calcVars == <<bulk, similar, view, budget, auto, categoryManager>>
nonCacheVars == <<save, cleaner, io, calcVars>>
vars == <<rowsData, merchantEditingCache, modals, flight, commitResult, session,
          save, cleaner, io, bulk, similar, view, budget, auto, categoryManager>>

\* null, which is not the empty table [] that disconnect leaves
NullData == <<"null">>

\* pendingChanges (merchant -> group) is written by apply and cleared by enable
\* and disable, and read nowhere: it is left out of the record
DisabledCache ==
    [enabled |-> FALSE, originalData |-> NullData, changedRows |-> {}]

\* JSON.parse(JSON.stringify(table)): a fresh table with the same cells
DeepCopy(table) == [i \in DOMAIN table |-> [c \in DOMAIN table[i] |-> table[i][c]]]

GetColumnValue(row, colIndex) ==
    IF colIndex # -1 /\ Truthy(row[colIndex]) THEN row[colIndex] ELSE Null

\* getColumnValue(row, 'merchant') || row[2]
RowMerchant(row) ==
    IF GetColumnValue(row, MerchantCol) # Null
    THEN GetColumnValue(row, MerchantCol) ELSE row[2]

\* enableMerchantEditingCache: the cache after the call
Enable(cache, table) ==
    [enabled |-> TRUE, originalData |-> DeepCopy(table), changedRows |-> {}]

\* disableMerchantEditingCache
Disable(cache) == DisabledCache

DataRowsOf(table) == DOMAIN table \ {0}

\* a loop that does not compare the merchant: every data row
MatchRowsAll(table, merchantName) == DataRowsOf(table)

\* the loop of applyCachedMerchantChange: rows whose merchant is merchantName
MatchRows(table, merchantName) ==
    {i \in DataRowsOf(table) : RowMerchant(table[i]) = merchantName}

\* applyCachedMerchantChange: the live table after the call
ApplyTable(cache, table, merchantName, newGroupName) ==
    IF ~cache.enabled THEN table
    ELSE [i \in DOMAIN table |->
            IF i \in MatchRows(table, merchantName) /\ MerchantGroupCol >= 0
            THEN [table[i] EXCEPT ![MerchantGroupCol] = newGroupName]
            ELSE table[i]]

\* applyCachedMerchantChange: the cache after the call
ApplyCache(cache, table, merchantName, newGroupName) ==
    IF ~cache.enabled THEN cache
    ELSE [cache EXCEPT
            !.changedRows = cache.changedRows \cup MatchRows(table, merchantName)]

\* the merchant without the 'Unknown' default
LiveMerchantRaw(row) == RowMerchant(row)

\* getColumnValue(row, 'merchant') || row[2] || 'Unknown'
LiveMerchant(row) ==
    IF Truthy(RowMerchant(row)) THEN RowMerchant(row) ELSE Unknown

\* the rows getLiveMerchantData files under a group: a truthy, non-blank cell
GroupedRows(table) ==
    {i \in DataRowsOf(table) :
        /\ GetColumnValue(table[i], MerchantGroupCol) # Null
        /\ Truthy(Trim(table[i][MerchantGroupCol]))}

\* getLiveMerchantData while the cache is enabled: group name -> set of merchants
GetLiveMerchantData(table) ==
    LET keys == {Trim(table[i][MerchantGroupCol]) : i \in GroupedRows(table)}
    IN  [k \in keys |->
            {LiveMerchant(table[i]) :
                i \in {j \in GroupedRows(table) : Trim(table[j][MerchantGroupCol]) = k}}]

(***************************************************************************)
(* The dialog's handlers.  A handler runs to completion; a flush is split  *)
(* at its await of Promise.all.                                            *)
(***************************************************************************)
\* document.body.appendChild(backdrop): one more modal
StackModal(n) == IF n = 0 THEN 1 ELSE 2

\* modal.remove() on the first #merchant-edit-modal, when there is one: the
\* possible numbers left
RemoveModal(n) == IF n = 0 THEN {0} ELSE IF n = 1 THEN {0} ELSE {1, 2}

\* the history of the editing session the user opened
NewSession(table) == [base |-> table, touched |-> {}, applied |-> << >>]

\* history: the cache is given up, its applies are flushed or reverted
ForgetApplied(s) == [s EXCEPT !.applied = << >>]

\* history: applyCachedMerchantChange wrote groupName into the rows `rows`;
\* `applied` is the group last applied to each row while the cache is held
NoteApplied(s, rows, groupName) ==
    [s EXCEPT !.touched = s.touched \cup rows,
              !.applied = [r \in (DOMAIN s.applied) \cup rows |->
                              IF r \in rows THEN groupName ELSE s.applied[r]]]

\* "Enable caching if not already enabled", at the top of a dialog action
LazyEnable(cache, table) == IF ~cache.enabled THEN Enable(cache, table) ELSE cache

LazySession(cache, table) == IF ~cache.enabled THEN NewSession(table) ELSE session

\* history: the rows an apply touches while the flush awaits the store
NoteFlight(rows) ==
    IF flight.status = "pending"
    THEN [flight EXCEPT !.during = flight.during \cup rows]
    ELSE flight

\* the "Edit Groups" button of the merchants view: openMerchantEditDialog
OpenMerchantEditDialog ==
    /\ UNCHANGED nonCacheVars
    /\ commitResult' = "none"
    /\ modals = 0
    /\ merchantEditingCache' = Enable(merchantEditingCache, rowsData)
    /\ modals' = 1
    /\ session' = NewSession(rowsData)
    /\ UNCHANGED <<rowsData, flight>>

\* assignMerchantToExistingGroup: apply, then openMerchantEditDialog again
AssignMerchantToExistingGroup(merchantName, groupName) ==
    /\ UNCHANGED nonCacheVars
    /\ commitResult' = "none"
    /\ modals > 0
    /\ Truthy(groupName)
    /\ LET c1 == LazyEnable(merchantEditingCache, rowsData)
           t2 == ApplyTable(c1, rowsData, merchantName, groupName)
           c2 == ApplyCache(c1, rowsData, merchantName, groupName)
           s1 == LazySession(merchantEditingCache, rowsData)
       IN  /\ rowsData' = t2
           /\ merchantEditingCache' = Enable(c2, t2)
           /\ session' = NoteApplied(s1, MatchRows(rowsData, merchantName), groupName)
           /\ flight' = NoteFlight(MatchRows(rowsData, merchantName))
    /\ modals' = StackModal(modals)

\* createNewGroupWithMerchant: apply the trimmed name, then open the dialog again
CreateNewGroupWithMerchant(merchantName, groupName) ==
    /\ UNCHANGED nonCacheVars
    /\ commitResult' = "none"
    /\ modals > 0
    /\ Truthy(groupName) /\ Truthy(Trim(groupName))
    /\ LET c1 == LazyEnable(merchantEditingCache, rowsData)
           t2 == ApplyTable(c1, rowsData, merchantName, Trim(groupName))
           c2 == ApplyCache(c1, rowsData, merchantName, Trim(groupName))
           s1 == LazySession(merchantEditingCache, rowsData)
       IN  /\ rowsData' = t2
           /\ merchantEditingCache' = Enable(c2, t2)
           /\ session' = NoteApplied(s1, MatchRows(rowsData, merchantName), Trim(groupName))
           /\ flight' = NoteFlight(MatchRows(rowsData, merchantName))
    /\ modals' = StackModal(modals)

\* addSelectedMerchantsToGroup / confirmSuggestedGroup / saveEditingGroup with one
\* merchant selected: apply without opening the dialog again
AddSelectedMerchantsToGroup(merchantName, targetGroup) ==
    /\ UNCHANGED nonCacheVars
    /\ commitResult' = "none"
    /\ modals > 0
    /\ Truthy(targetGroup)
    /\ LET c1 == LazyEnable(merchantEditingCache, rowsData)
           s1 == LazySession(merchantEditingCache, rowsData)
       IN  /\ rowsData' = ApplyTable(c1, rowsData, merchantName, targetGroup)
           /\ merchantEditingCache' = ApplyCache(c1, rowsData, merchantName, targetGroup)
           /\ session' = NoteApplied(s1, MatchRows(rowsData, merchantName), targetGroup)
           /\ flight' = NoteFlight(MatchRows(rowsData, merchantName))
    /\ UNCHANGED modals

\* cancelEditingGroup: opens the dialog again
CancelEditingGroup ==
    /\ UNCHANGED nonCacheVars
    /\ commitResult' = "none"
    /\ modals > 0
    /\ merchantEditingCache' = Enable(merchantEditingCache, rowsData)
    /\ session' = LazySession(merchantEditingCache, rowsData)
    /\ modals' = StackModal(modals)
    /\ UNCHANGED <<rowsData, flight>>

\* the "Done Managing Groups" button: removes the modal, leaves the cache alone
DoneManagingGroups ==
    /\ UNCHANGED nonCacheVars
    /\ commitResult' = "none"
    /\ modals > 0
    /\ modals' \in RemoveModal(modals)
    /\ UNCHANGED <<rowsData, merchantEditingCache, flight, session>>

(***************************************************************************)
(* commitCachedChanges, revertCachedChanges and their callers.  One flush  *)
(* at a time awaits the store: Accept is not pressed again while it does.  *)
(* The app sees of its requests only whether Promise.all resolved (every   *)
(* updateCell resolved) or rejected (the first updateCell that failed).    *)
(***************************************************************************)
IdleFlight == [status |-> "idle", issued |-> << >>, during |-> {}]

\* the updateCell calls commitCachedChanges issues: changed row -> value sent
CommitWrites(cache, table) ==
    [r \in cache.changedRows |-> table[r][MerchantGroupCol]]

\* commitCachedChanges after Promise.all resolved: the cache it leaves
CommitThen(cache) == Disable(cache)

\* what commitCachedChanges returns when the cache is disabled or no row changed
CommitEarlyReturn == "true"

\* what commitCachedChanges returns after Promise.all resolved
CommitThenReturn == "true"

\* a catch block that gives the cache up
CommitCatchDisables(cache) == Disable(cache)

\* commitCachedChanges's catch block: the cache it leaves
CommitCatch(cache) == cache

\* what commitCachedChanges's catch block returns
CommitCatchReturn == "false"

\* acceptMerchantChanges after its await: on success the modal is removed;
\* the numbers of modals possible afterwards
AcceptAfterCommit(success, n) == IF success = "true" THEN RemoveModal(n) ELSE {n}

\* revertCachedChanges: the live table after the call
RevertTable(cache, table) ==
    IF ~cache.enabled \/ cache.originalData = NullData THEN table
    ELSE DeepCopy(cache.originalData)

\* revertCachedChanges: the cache after the call
RevertCache(cache) ==
    IF ~cache.enabled \/ cache.originalData = NullData THEN cache
    ELSE Disable(cache)

\* acceptMerchantChanges when commitCachedChanges returns true at once
\* (cache disabled or no changed row): the modal is closed
AcceptNothingToSave ==
    /\ UNCHANGED nonCacheVars
    /\ modals > 0
    /\ ~merchantEditingCache.enabled \/ merchantEditingCache.changedRows = {}
    /\ commitResult' = CommitEarlyReturn
    /\ modals' \in AcceptAfterCommit(commitResult', modals)
    /\ UNCHANGED <<rowsData, merchantEditingCache, flight, session>>

\* acceptMerchantChanges -> commitCachedChanges up to its await: one updateCell
\* request per changed row is issued
AcceptStartCommit ==
    /\ UNCHANGED nonCacheVars
    /\ commitResult' = "none"
    /\ modals > 0
    /\ merchantEditingCache.enabled /\ merchantEditingCache.changedRows # {}
    /\ flight.status = "idle"
    /\ flight' = [status |-> "pending",
                  issued |-> CommitWrites(merchantEditingCache, rowsData),
                  during |-> {}]
    /\ UNCHANGED <<rowsData, merchantEditingCache, modals, session>>

\* every write of the flush was confirmed, Promise.all resolves: the cache is
\* disabled, true is returned and acceptMerchantChanges closes the modal
CommitResolves ==
    /\ UNCHANGED nonCacheVars
    /\ flight.status = "pending"
    /\ flight' = IdleFlight
    /\ merchantEditingCache' = CommitThen(merchantEditingCache)
    /\ commitResult' = CommitThenReturn
    /\ modals' \in AcceptAfterCommit(commitResult', modals)
    /\ session' = ForgetApplied(session)
    /\ UNCHANGED rowsData

\* the write of row r is the first to fail, Promise.all rejects: the catch block
\* runs and false is returned; acceptMerchantChanges leaves the modal open
CommitRejects(r) ==
    /\ UNCHANGED nonCacheVars
    /\ flight.status = "pending"
    /\ r \in DOMAIN flight.issued
    /\ flight' = IdleFlight
    /\ merchantEditingCache' = CommitCatch(merchantEditingCache)
    /\ commitResult' = CommitCatchReturn
    /\ modals' \in AcceptAfterCommit(commitResult', modals)
    /\ UNCHANGED <<rowsData, session>>

\* cancelMerchantChanges with unsaved changes, the confirm() answered yes
CancelDiscard ==
    /\ UNCHANGED nonCacheVars
    /\ commitResult' = "none"
    /\ modals > 0
    /\ merchantEditingCache.enabled /\ merchantEditingCache.changedRows # {}
    /\ rowsData' = RevertTable(merchantEditingCache, rowsData)
    /\ merchantEditingCache' = RevertCache(merchantEditingCache)
    /\ modals' \in RemoveModal(modals)
    /\ session' = ForgetApplied(session)
    /\ UNCHANGED flight

\* cancelMerchantChanges with no changed row: the cache is disabled
CancelClean ==
    /\ UNCHANGED nonCacheVars
    /\ commitResult' = "none"
    /\ modals > 0
    /\ ~(merchantEditingCache.enabled /\ merchantEditingCache.changedRows # {})
    /\ merchantEditingCache' = Disable(merchantEditingCache)
    /\ modals' \in RemoveModal(modals)
    /\ session' = ForgetApplied(session)
    /\ UNCHANGED <<rowsData, flight>>

(***************************************************************************)
(* The table as loaded: rows 1 .. DataRows-1 are transactions of merchant  *)
(* X without a group, the last row is one of merchant Y or of a blank       *)
(* merchant cell and may already carry a merchant group.                   *)
(***************************************************************************)
InitTables ==
    {[i \in 0..DataRows |->
        IF i = 0 THEN Header
        ELSE [c \in Cols |->
                IF c = MerchantCol THEN (IF i < DataRows THEN mX ELSE last[1])
                ELSE IF c = MerchantGroupCol
                     THEN (IF i = DataRows THEN last[2] ELSE EmptyStr)
                ELSE <<"v">>]] :
      last \in LastRows}

CacheInit ==
    /\ rowsData \in InitTables
    /\ merchantEditingCache = DisabledCache
    /\ modals = 0
    /\ flight = IdleFlight
    /\ commitResult = "none"
    /\ session = NewSession(rowsData)

(***************************************************************************)
(* The handlers that replace the row table: the reloads after a group is   *)
(* renamed or deleted in the dialog, a load from the store, disconnect.    *)
(* Each reload is taken at `this.rowsData = dataRows`, after the writes    *)
(* and the request resolved; a handler that fails or returns early changes *)
(* nothing here.                                                           *)
(***************************************************************************)
\* the rows whose merchant group, trimmed, is groupName
GroupRows(table, groupName) ==
    {i \in DataRowsOf(table) :
        /\ GetColumnValue(table[i], MerchantGroupCol) # Null
        /\ Trim(table[i][MerchantGroupCol]) = groupName}

\* response.values after the rows `rows` were written `value`: the other rows
\* are as the app shows them or, their edits not being sent yet, as they were
\* when the editing session was opened
Reloaded(rows, value) ==
    LET Choices(i) ==
            IF i \in rows
            THEN {[rowsData[i] EXCEPT ![MerchantGroupCol] = value]}
            ELSE {rowsData[i]} \cup
                 (IF i \in DOMAIN session.base THEN {session.base[i]} ELSE {})
    IN  {t \in [DOMAIN rowsData -> UNION {Choices(i) : i \in DOMAIN rowsData}] :
            \A i \in DOMAIN rowsData : t[i] \in Choices(i)}

\* renameGroupInDialog: the rows of the group are written the new name, then
\* loadDataFromAppsScript, the modal staying open
RenameGroupInDialog(oldGroupName, newGroupName) ==
    /\ UNCHANGED nonCacheVars
    /\ commitResult' = "none"
    /\ modals > 0
    /\ Truthy(newGroupName) /\ Truthy(Trim(newGroupName))
    /\ Trim(newGroupName) # oldGroupName
    /\ GroupRows(rowsData, oldGroupName) # {}
    /\ rowsData' \in Reloaded(GroupRows(rowsData, oldGroupName), Trim(newGroupName))
    /\ UNCHANGED <<merchantEditingCache, modals, flight, session>>

\* deleteGroupInDialog: the rows of the group are written '', the modal is
\* removed, then loadDataFromAppsScript
DeleteGroupInDialog(groupName) ==
    /\ UNCHANGED nonCacheVars
    /\ commitResult' = "none"
    /\ modals > 0
    /\ GroupRows(rowsData, groupName) # {}
    /\ rowsData' \in Reloaded(GroupRows(rowsData, groupName), EmptyStr)
    /\ modals' \in RemoveModal(modals)
    /\ UNCHANGED <<merchantEditingCache, flight, session>>

\* loadData / loadDataFromAppsScript from the connection screen: the sheet
\* holds one of the tables
LoadDataDone(dataRows) ==
    /\ UNCHANGED nonCacheVars
    /\ commitResult' = "none"
    /\ modals = 0
    /\ rowsData' = dataRows
    /\ UNCHANGED <<merchantEditingCache, modals, flight, session>>

\* disconnect, reachable when no modal covers the page
Disconnect ==
    /\ modals = 0
    /\ rowsData # << >>
    /\ commitResult' = "none"
    /\ rowsData' = << >>
    /\ io' = [io EXCEPT !.credentials = [type |-> "string", chars |-> << >>]]
    /\ UNCHANGED <<merchantEditingCache, modals, flight, session,
                   save, cleaner, calcVars>>

ReloadNext ==
    \/ OpenMerchantEditDialog
    \/ \E m \in MerchantInputs, g \in GroupInputs : AddSelectedMerchantsToGroup(m, g)
    \/ DoneManagingGroups
    \/ CancelDiscard
    \/ \E old \in GroupInputs, new \in GroupInputs : RenameGroupInDialog(old, new)
    \/ \E g \in GroupInputs : DeleteGroupInDialog(g)
    \/ \E dataRows \in InitTables : LoadDataDone(dataRows)
    \/ Disconnect

\* a flush after a reload in the dialog
FlushNext ==
    \/ OpenMerchantEditDialog
    \/ \E m \in MerchantInputs, g \in {gG, gH} : AddSelectedMerchantsToGroup(m, g)
    \/ RenameGroupInDialog(gG, gH)
    \/ AcceptStartCommit
    \/ CommitResolves

CacheNext ==
    \/ OpenMerchantEditDialog
    \/ \E m \in MerchantInputs, g \in GroupInputs : AssignMerchantToExistingGroup(m, g)
    \/ \E m \in MerchantInputs, g \in GroupInputs : CreateNewGroupWithMerchant(m, g)
    \/ \E m \in MerchantInputs, g \in GroupInputs : AddSelectedMerchantsToGroup(m, g)
    \/ CancelEditingGroup
    \/ DoneManagingGroups
    \/ AcceptNothingToSave
    \/ AcceptStartCommit
    \/ CommitResolves
    \/ \E r \in RowIdx : CommitRejects(r)
    \/ CancelDiscard
    \/ CancelClean

(***************************************************************************)
(* saveMerchantCleaning: the review dialog's Save.  The queued edits are   *)
(* written as one batch; when the batch fails they are written cell by     *)
(* cell.  A handler step ends at each await.                               *)
(***************************************************************************)
UpperLetters == <<"A", "B", "C", "D", "E", "F", "G", "H", "I", "J", "K", "L", "M",
                  "N", "O", "P", "Q", "R", "S", "T", "U", "V", "W", "X", "Y", "Z">>
LowerLetters == <<"a", "b", "c", "d", "e", "f", "g", "h", "i", "j", "k", "l", "m",
                  "n", "o", "p", "q", "r", "s", "t", "u", "v", "w", "x", "y", "z">>
DigitChars == <<"0", "1", "2", "3", "4", "5", "6", "7", "8", "9">>

RECURSIVE NumberToLetter(_)
\* SheetsAPI.numberToLetter
NumberToLetter(num) ==
    IF num <= 0 THEN << >>
    ELSE NumberToLetter((num - 1) \div 26) \o <<UpperLetters[((num - 1) % 26) + 1]>>

RECURSIVE NumberToString(_)
\* the decimal digits of a positive row number, as `${...}` writes them
NumberToString(n) ==
    IF n < 10 THEN <<DigitChars[n + 1]>>
    ELSE NumberToString(n \div 10) \o <<DigitChars[(n % 10) + 1]>>

\* `${merchantGroupColLetter}${i + 1}`: the cell of table row i's merchant group
GroupRange(i) == NumberToLetter(MerchantGroupCol + 1) \o NumberToString(i + 1)

\* the outcomes of one updateCell call as saveMerchantCleaning sees them:
\*   confirmed   - the store answered { success: true } (or the Sheets API result)
\*   opaque      - only the no-cors strategy got through: the answer cannot be
\*                 read and appsScriptRequest returns { success: true } itself
\*   unconfirmed - the answer has neither error nor success/updatedCells: logged,
\*                 not thrown
\*   error       - the call throws
CellOutcomes == {"confirmed", "opaque", "unconfirmed", "error"}

\* updateCell returns normally
UpdateCellResolves(outcome) == outcome # "error"

\* the store confirmed the write
StoreConfirmed(outcome) == outcome = "confirmed"

SaveIdle ==
    [pc |-> "idle", finalUpdates |-> << >>, batch |-> "none", i |-> 0,
     issued |-> << >>, successCount |-> 0, confirmed |-> 0,
     message |-> "none", enterApp |-> FALSE]

\* finalUpdates of the rows in edits, in row order: [range, value] records
RECURSIVE FinalUpdates(_, _)
FinalUpdates(edits, from) ==
    IF from > DataRows THEN << >>
    ELSE (IF from \in DOMAIN edits
          THEN <<[range |-> GroupRange(from), value |-> edits[from]]>>
          ELSE << >>) \o FinalUpdates(edits, from + 1)

\* "Update local data immediately": row[merchantGroup] = finalValue
SaveLocal(table, edits) ==
    [r \in DOMAIN table |->
        IF r \in DOMAIN edits THEN [table[r] EXCEPT ![MerchantGroupCol] = edits[r]]
        ELSE table[r]]

\* the three-way report after the writes: which message, and the enter-app button
SaveReport(sv) ==
    [sv EXCEPT
        !.pc = "done",
        !.message = IF sv.successCount = 0 /\ Len(sv.finalUpdates) > 0 THEN "failed"
                    ELSE IF sv.successCount < Len(sv.finalUpdates) THEN "partial"
                    ELSE "complete",
        !.enterApp = TRUE]

\* every queued edit: a group value for some of the rows
SaveEdits == UNION {[rows -> {gG, gH}] : rows \in SUBSET RowIdx}

\* saveMerchantCleaning up to its first await
SaveMerchantCleaning(edits, hasSheetId) ==
    /\ save.pc = "idle"
    /\ rowsData' = SaveLocal(rowsData, edits)
    /\ LET fu == FinalUpdates(edits, 1)
           s1 == [save EXCEPT !.finalUpdates = fu]
       IN  save' = IF ~hasSheetId
                   THEN [s1 EXCEPT !.pc = "threw", !.message = "error"]
                   ELSE IF Len(fu) = 0 THEN SaveReport(s1)
                   ELSE [s1 EXCEPT !.pc = "batch"]
    /\ UNCHANGED <<merchantEditingCache, modals, flight, commitResult, session,
                   cleaner, io, calcVars>>

\* batchUpdateCells resolved: every queued edit is counted
BatchResolves ==
    /\ save.pc = "batch"
    /\ save' = SaveReport([save EXCEPT !.batch = "ok",
                                        !.successCount = Len(save.finalUpdates)])
    /\ UNCHANGED <<cacheVars, cleaner, io, calcVars>>

\* batchUpdateCells threw: fall back to individual updates
BatchRejects ==
    /\ save.pc = "batch"
    /\ save' = [save EXCEPT !.batch = "failed", !.pc = "cells", !.i = 0]
    /\ UNCHANGED <<cacheVars, cleaner, io, calcVars>>

\* one round of the fallback loop: updateCell of finalUpdates[i] returns or throws
CellUpdateReturns(outcome) ==
    /\ save.pc = "cells"
    /\ LET update == save.finalUpdates[save.i + 1]
           s1 == [save EXCEPT
                    !.issued = Append(@, update),
                    !.successCount = IF UpdateCellResolves(outcome) THEN @ + 1 ELSE @,
                    !.confirmed = IF StoreConfirmed(outcome) THEN @ + 1 ELSE @,
                    !.i = @ + 1]
       IN  save' = IF s1.i < Len(s1.finalUpdates) THEN s1 ELSE SaveReport(s1)
    /\ UNCHANGED <<cacheVars, cleaner, io, calcVars>>

\* the review dialog is shown again for another run of the auto-clean
ReviewAgain ==
    /\ save.pc \in {"done", "threw"}
    /\ save' = SaveIdle
    /\ UNCHANGED <<cacheVars, cleaner, io, calcVars>>

SaveNext ==
    \/ \E edits \in SaveEdits, hasSheetId \in BOOLEAN :
          SaveMerchantCleaning(edits, hasSheetId)
    \/ BatchResolves
    \/ BatchRejects
    \/ \E outcome \in CellOutcomes : CellUpdateReturns(outcome)
    \/ ReviewAgain

(***************************************************************************)
(* MerchantCleaner.  A pattern is a set of alternatives, an alternative a  *)
(* sequence of atoms [cls, q]: a character class with a quantifier "1",    *)
(* "?", "*" or "+".  All patterns carry the i flag: a character is         *)
(* compared in lower case.                                                 *)
(***************************************************************************)
ToLower(c) ==
    IF \E k \in 1..26 : UpperLetters[k] = c
    THEN LowerLetters[CHOOSE k \in 1..26 : UpperLetters[k] = c]
    ELSE c

Digit == {DigitChars[k] : k \in 1..10}
\* \s, over the characters of the names cleaned here
Space == {" "}

Lit(str) == [k \in 1..Len(str) |-> [cls |-> {str[k]}, q |-> "1"]]
Cls(cls, q) == <<[cls |-> cls, q |-> q]>>

\* \s*#?\d*, the tail of the brand patterns
StoreNo == Cls(Space, "*") \o Cls({"#"}, "?") \o Cls(Digit, "*")

\* how many characters of s from position i on (1-based) are in cls
RECURSIVE Run(_, _, _)
Run(cls, s, i) ==
    IF i <= Len(s) /\ ToLower(s[i]) \in cls THEN 1 + Run(cls, s, i + 1) ELSE 0

\* the positions after a match of atoms k.. of alt that starts at position i
RECURSIVE Ends(_, _, _, _)
Ends(alt, k, s, i) ==
    IF k > Len(alt) THEN {i}
    ELSE LET run == Run(alt[k].cls, s, i)
             counts == IF alt[k].q = "1" THEN (IF run >= 1 THEN {1} ELSE {})
                       ELSE IF alt[k].q = "?" THEN (IF run >= 1 THEN {0, 1} ELSE {0})
                       ELSE IF alt[k].q = "*" THEN 0..run
                       ELSE 1..run
         IN  UNION {Ends(alt, k + 1, s, i + n) : n \in counts}

\* an unanchored pattern matches somewhere in s
Found(alts, s) ==
    \E alt \in alts : \E i \in 1..(Len(s) + 1) : Ends(alt, 1, s, i) # {}

\* ^(.+?)tail.*$ : the lengths the group may take
GroupLens(tail, s) ==
    {k \in 1..Len(s) : \E alt \in tail : Ends(alt, 1, s, k + 1) # {}}

Dollar1 == <<"$", "1">>

\* initializeRegexPatterns: the ten rules, in list order
RegexPatterns == <<
    [flags |-> "i", anchored |-> FALSE,
     alts |-> {Lit(<<"w", "a", "l">>) \o Cls({"-", " "}, "?")
                  \o Lit(<<"m", "a", "r", "t">>) \o StoreNo},
     cleanName |-> <<"W", "a", "l", "-", "M", "a", "r", "t">>],
    [flags |-> "i", anchored |-> FALSE,
     alts |-> {Lit(<<"w", "a", "l", "m", "a", "r", "t">>) \o StoreNo},
     cleanName |-> <<"W", "a", "l", "-", "M", "a", "r", "t">>],
    [flags |-> "i", anchored |-> FALSE,
     alts |-> {Lit(<<"c", "o", "s", "t", "c", "o">>) \o Cls(Space, "*")
                  \o Lit(<<"w", "h", "o", "l", "e", "s", "a", "l", "e">>) \o StoreNo,
               Lit(<<"c", "o", "s", "t", "c", "o">>) \o Cls(Space, "*") \o StoreNo},
     cleanName |-> <<"C", "o", "s", "t", "c", "o">>],
    [flags |-> "i", anchored |-> FALSE,
     alts |-> {Lit(<<"t", "i", "m">>) \o Cls(Space, "*")
                  \o Lit(<<"h", "o", "r", "t", "o", "n">>) \o Cls({"s"}, "?") \o StoreNo},
     cleanName |-> <<"T", "i", "m", " ", "H", "o", "r", "t", "o", "n", "s">>],
    [flags |-> "i", anchored |-> FALSE,
     alts |-> {Lit(<<"m", "c", "d", "o", "n", "a", "l", "d">>) \o Cls({"'"}, "?")
                  \o Lit(<<"s">>) \o StoreNo},
     cleanName |-> <<"M", "c", "D", "o", "n", "a", "l", "d", "'", "s">>],
    [flags |-> "i", anchored |-> FALSE,
     alts |-> {Lit(<<"m", "c", "d", "o", "n", "a", "l", "d", "s">>) \o StoreNo},
     cleanName |-> <<"M", "c", "D", "o", "n", "a", "l", "d", "'", "s">>],
    [flags |-> "i", anchored |-> FALSE,
     alts |-> {Lit(<<"s", "h", "o", "p", "p", "e", "r">>) \o Cls({"s"}, "?")
                  \o Cls(Space, "*") \o Lit(<<"d", "r", "u", "g">>) \o Cls(Space, "*")
                  \o Lit(<<"m", "a", "r", "t">>) \o StoreNo},
     cleanName |-> <<"S", "h", "o", "p", "p", "e", "r", "s", " ", "D", "r", "u", "g",
                     " ", "M", "a", "r", "t">>],
    [flags |-> "i", anchored |-> TRUE,
     alts |-> {Cls(Space, "*") \o Lit(<<"#">>) \o Cls(Digit, "+")},
     cleanName |-> Dollar1],
    [flags |-> "i", anchored |-> TRUE,
     alts |-> {Cls(Space, "*") \o Cls(Digit, "1") \o Cls(Digit, "1")
                  \o Cls(Digit, "1") \o Cls(Digit, "+")},
     cleanName |-> Dollar1],
    [flags |-> "g", anchored |-> FALSE,
     alts |-> {Cls(Space, "+")},
     cleanName |-> <<" ">>] >>

\* String.prototype.includes
Includes(str, part) ==
    \E i \in 1..(Len(str) - Len(part) + 1) : SubSeq(str, i, i + Len(part) - 1) = part

\* the pattern of rule matches str when the search starts at its beginning
Matches(rule, str) ==
    IF rule.anchored THEN GroupLens(rule.alts, str) # {} ELSE Found(rule.alts, str)

\* RegExp.prototype.test: a pattern without the g flag searches from the start
\* and keeps no state; one with the g flag searches from its lastIndex (0-based)
\* and leaves the end of the match there, or 0 when nothing is found
RegexTest(rule, str, lastIndex) ==
    IF rule.flags # "g" THEN [hit |-> Matches(rule, str), lastIndex |-> lastIndex]
    ELSE LET starts == {i \in (lastIndex + 1)..Len(str) :
                            \E alt \in rule.alts : Ends(alt, 1, str, i) # {}}
         IN  IF lastIndex > Len(str) \/ starts = {}
             THEN [hit |-> FALSE, lastIndex |-> 0]
             ELSE LET i == CHOOSE x \in starts : \A y \in starts : x <= y
                      ends == UNION {Ends(alt, 1, str, i) : alt \in rule.alts}
                      e == CHOOSE x \in ends : \A y \in ends : y <= x
                  IN  [hit |-> TRUE, lastIndex |-> e - 1]

\* cleaned.replace(pattern, '$1') for an anchored pattern: the whole name is
\* replaced by the shortest group that lets the rest match
ReplaceGroup(rule, str) ==
    LET lens == GroupLens(rule.alts, str)
    IN  IF lens = {} THEN str
        ELSE SubSeq(str, 1, CHOOSE k \in lens : \A j \in lens : k <= j)

\* ApplyRule without the fixed name: the matched name is kept
ApplyRuleKeeps(rule, str) ==
    IF Includes(rule.cleanName, Dollar1) THEN ReplaceGroup(rule, str) ELSE str

\* what a matching rule makes of the name
ApplyRule(rule, str) ==
    IF Includes(rule.cleanName, Dollar1) THEN ReplaceGroup(rule, str)
    ELSE rule.cleanName

\* the loop of cleanWithRegex from rule k on
RECURSIVE RegexLoop(_, _, _)
RegexLoop(k, cleaned, lastIndex) ==
    IF k > Len(RegexPatterns) THEN [cleaned |-> cleaned, lastIndex |-> lastIndex]
    ELSE LET t == RegexTest(RegexPatterns[k], cleaned, lastIndex)
         IN  IF t.hit
             THEN [cleaned |-> ApplyRule(RegexPatterns[k], cleaned),
                   lastIndex |-> t.lastIndex]
             ELSE RegexLoop(k + 1, cleaned, t.lastIndex)

\* cleanWithRegex: the name returned, and the lastIndex left in the last pattern
CleanWithRegex(merchantName, lastIndex) ==
    IF ~Truthy(merchantName) THEN [out |-> merchantName, lastIndex |-> lastIndex]
    ELSE LET r == RegexLoop(1, Trim(merchantName), lastIndex)
         IN  [out |-> Trim(r.cleaned), lastIndex |-> r.lastIndex]

nWalmart == <<"W", "A", "L", "-", "M", "A", "R", "T", " ", "#", "3", "4", "5", "4",
              " ", "E", "X", "T", "R", "A">>
nJoe == <<"J", "o", "e", " ", "C", "a", "f", "e">>
nEsso == <<" ", "E", "s", "s", "o">>
nShell == <<"S", "h", "e", "l", "l", " ", "#", "1", "2", " ", "M", "a", "i", "n">>
nPetro == <<"P", "e", "t", "r", "o", " ", "1", "2", "3", "4", "5">>
nAB == <<"A", " ", "B">>

\* the raw merchant names cleaned
NameInputs == {nWalmart, nJoe, nEsso, nShell, nPetro, nAB}

\* raw names of known brands, passed to cleanWithRegex alone
BrandInputs ==
    {<<"T", "i", "m", " ", "H", "o", "r", "t", "o", "n", " ", "#", "7">>,
     <<"m", "c", "d", "o", "n", "a", "l", "d", "s", " ", "Q", "4">>,
     <<"C", "o", "s", "t", "c", "o", " ", "W", "a", "l", "m", "a", "r", "t">>}

\* the fixed names of the rules without a capture group: what cleanWithRegex
\* returns for a known brand, and so what a second cleaning is given
BrandNames ==
    {RegexPatterns[k].cleanName :
        k \in {j \in DOMAIN RegexPatterns :
                  ~Includes(RegexPatterns[j].cleanName, Dollar1)}}

\* what the GPT call may answer (before its trim)
GptAnswers == {<<"J", "o", "e", "s", " ">>}

NoName == <<"-">>

\* the values lastIndex takes: positions in a name
LastIndexes == 0..MaxNameLen

\* CleanWithRegex over the names cleaned, evaluated once
CleanWithRegexOf ==
    [name \in NameInputs \cup BrandInputs \cup BrandNames \cup {EmptyStr},
     lastIndex \in LastIndexes |->
        CleanWithRegex(name, lastIndex)]

CleanerIdle ==
    [lastIndex |-> 0, cleaningCache |-> << >>, apiKey |-> FALSE, pc |-> "idle",
     merchantName |-> NoName, regexCleaned |-> NoName,
     regexIn |-> NoName, regexOut |-> NoName,
     returned |-> NoName, via |-> "none"]

\* this.cleaningCache.set(key, value)
CacheSet(cache, key, value) ==
    [k \in DOMAIN cache \cup {key} |-> IF k = key THEN value ELSE cache[k]]

\* a direct call of cleanWithRegex
CleanWithRegexCall(name) ==
    /\ cleaner.pc = "idle"
    /\ LET r == CleanWithRegexOf[name, cleaner.lastIndex]
       IN  cleaner' = [cleaner EXCEPT
                          !.lastIndex = r.lastIndex,
                          !.regexIn = name, !.regexOut = r.out,
                          !.merchantName = NoName, !.regexCleaned = NoName,
                          !.returned = r.out, !.via = "regex-only"]
    /\ UNCHANGED <<cacheVars, save, io, calcVars>>

\* the cleaner after const regexCleaned = this.cleanWithRegex(merchantName)
\* returned r
AfterCleanWithRegex(name, r) ==
    [cleaner EXCEPT
        !.lastIndex = r.lastIndex,
        !.regexIn = name, !.regexOut = r.out,
        !.merchantName = name, !.regexCleaned = r.out]

\* cleanMerchantName, cleanWithRegex having returned r, up to its return or to
\* the await of the GPT call: the cleaner it leaves
CleanMerchantNameFrom(name, r) ==
    LET c1 == AfterCleanWithRegex(name, r)
    IN  IF ~Truthy(name)
        THEN [cleaner EXCEPT !.merchantName = name, !.regexCleaned = NoName,
                             !.returned = name, !.via = "blank"]
        ELSE IF r.out # name /\ Len(r.out) > 3
        THEN [c1 EXCEPT !.cleaningCache = CacheSet(@, name, r.out),
                        !.returned = r.out, !.via = "regex"]
        ELSE IF ~cleaner.apiKey
        THEN [c1 EXCEPT !.returned = r.out, !.via = "no-key"]
        ELSE IF name \in DOMAIN cleaner.cleaningCache
        THEN [c1 EXCEPT !.returned = cleaner.cleaningCache[name],
                        !.via = "cache"]
        ELSE [c1 EXCEPT !.pc = "gpt", !.returned = NoName, !.via = "none"]

\* cleanMerchantName up to its return or to the await of the GPT call
CleanMerchantNameOf(name) ==
    CleanMerchantNameFrom(name, CleanWithRegexOf[name, cleaner.lastIndex])

\* a call of cleanMerchantName from outside the bulk cleaner
CleanMerchantName(name) ==
    /\ cleaner.pc = "idle"
    /\ cleaner' = CleanMerchantNameOf(name)
    /\ UNCHANGED <<cacheVars, save, io, calcVars>>

\* the GPT call answered with a non-empty cleaned name
GptAnswers1(answer) ==
    /\ cleaner.pc = "gpt"
    /\ Truthy(Trim(answer))
    /\ cleaner' = [cleaner EXCEPT
                      !.pc = "idle",
                      !.cleaningCache = CacheSet(@, cleaner.merchantName, Trim(answer)),
                      !.returned = Trim(answer), !.via = "gpt"]
    /\ UNCHANGED <<cacheVars, save, io, calcVars>>

\* the ways the GPT call fails: a non-2xx status, a rejected fetch, an empty reply
GptFailures == {"status", "network", "empty"}

\* the GPT call failed: the catch block of cleanWithGPT4 calls cleanWithRegex
GptFails(failure) ==
    /\ cleaner.pc = "gpt"
    /\ LET r == CleanWithRegexOf[cleaner.merchantName, cleaner.lastIndex]
       IN  cleaner' = [cleaner EXCEPT
                          !.pc = "idle",
                          !.lastIndex = r.lastIndex,
                          !.regexIn = cleaner.merchantName, !.regexOut = r.out,
                          !.returned = r.out, !.via = "gpt-failed"]
    /\ UNCHANGED <<cacheVars, save, io, calcVars>>

\* setApiKey
SetApiKey(key) ==
    /\ cleaner.pc = "idle"
    /\ cleaner.apiKey # key
    /\ cleaner' = [cleaner EXCEPT !.apiKey = key]
    /\ UNCHANGED <<cacheVars, save, io, calcVars>>

CleanNext ==
    \/ \E name \in NameInputs \cup BrandInputs : CleanWithRegexCall(name)
    \/ \E name \in NameInputs \cup {EmptyStr} : CleanMerchantName(name)
    \/ \E answer \in GptAnswers : GptAnswers1(answer)
    \/ \E failure \in GptFailures : GptFails(failure)
    \/ \E key \in BOOLEAN : SetApiKey(key)

(***************************************************************************)
(* cleanMerchantNames: the bulk cleaner.  Each await of cleanMerchantName   *)
(* ends a step; the delay taken after every third name changes nothing and *)
(* is left out.  cleanMerchantName catches what the GPT call throws, so the *)
(* catch block of the loop is not entered.                                 *)
(***************************************************************************)
MaxBulk == 3

Blank == <<" ">>

\* the strings a list of merchant names is made of
BulkNames == {nJoe, nWalmart, EmptyStr, Blank}

\* merchantNames: the lists given to cleanMerchantNames
BulkInputs == UNION {[1..n -> BulkNames] : n \in 0..MaxBulk}

\* [...new Set(list)]: the first occurrence of each string, in order
RECURSIVE SetOf(_)
SetOf(list) ==
    IF list = << >> THEN << >>
    ELSE LET d == SetOf(SubSeq(list, 1, Len(list) - 1))
             x == list[Len(list)]
         IN  IF \E i \in 1..Len(d) : d[i] = x THEN d ELSE Append(d, x)

\* merchantNames.filter(name => name && name.trim())
NonBlankFilter(name) == Truthy(name) /\ Truthy(Trim(name))

\* uniqueNames without the Set: every non-blank occurrence
UniqueNamesAll(merchantNames) == SelectSeq(merchantNames, NonBlankFilter)

\* uniqueNames
UniqueNames(merchantNames) == SetOf(SelectSeq(merchantNames, NonBlankFilter))

BulkIdle ==
    [pc |-> "idle", merchantNames |-> << >>, uniqueNames |-> << >>, k |-> 0,
     calls |-> << >>, results |-> << >>]

\* the loop from name k on, up to the await of cleanMerchantName or the return
BulkLoop(b, k) ==
    IF k > Len(b.uniqueNames)
    THEN /\ bulk' = [b EXCEPT !.pc = "done", !.k = k]
         /\ UNCHANGED cleaner
    ELSE /\ bulk' = [b EXCEPT !.pc = "await", !.k = k,
                              !.calls = Append(@, b.uniqueNames[k])]
         /\ cleaner' = CleanMerchantNameOf(b.uniqueNames[k])

\* cleanMerchantNames is called
CleanMerchantNames(merchantNames) ==
    /\ bulk.pc \in {"idle", "done"}
    /\ cleaner.pc = "idle"
    /\ BulkLoop([BulkIdle EXCEPT !.merchantNames = merchantNames,
                                 !.uniqueNames = UniqueNames(merchantNames)], 1)
    /\ UNCHANGED <<cacheVars, save, io, similar, view, budget, auto, categoryManager>>

\* cleanMerchantName has returned: results.set, then the next name
BulkResumes ==
    /\ bulk.pc = "await"
    /\ cleaner.pc = "idle"
    /\ BulkLoop([bulk EXCEPT !.results =
                     CacheSet(@, bulk.uniqueNames[bulk.k], cleaner.returned)],
                bulk.k + 1)
    /\ UNCHANGED <<cacheVars, save, io, similar, view, budget, auto, categoryManager>>

BulkNext ==
    \/ \E merchantNames \in BulkInputs : CleanMerchantNames(merchantNames)
    \/ BulkResumes
    \/ \E answer \in GptAnswers : GptAnswers1(answer)
    \/ \E failure \in GptFailures : GptFails(failure)
    \/ \E key \in BOOLEAN : SetApiKey(key)

(***************************************************************************)
(* findSimilarMerchants, called by analyzeMerchantPatterns for the smart    *)
(* grouping dialog, and the dialog's Cancel.                               *)
(***************************************************************************)
MaxMerchants == 3
MaxCount == 2

\* [#\d\-\s], the class of the trailing run and of the separators of split
SepChars == {"#", "-"} \cup Digit \cup Space

\* \w
WordChars ==
    {UpperLetters[k] : k \in 1..26} \cup {LowerLetters[k] : k \in 1..26}
        \cup Digit \cup {"_"}

\* toLowerCase
ToLowerCase(str) == [k \in 1..Len(str) |-> ToLower(str[k])]

\* .replace(/[#\d\-\s]+$/, '')
StripTrailingRun(str) ==
    LET cuts == {k \in 0..Len(str) : \A j \in (k + 1)..Len(str) : str[j] \in SepChars}
    IN  SubSeq(str, 1, CHOOSE k \in cuts : \A j \in cuts : k <= j)

BusinessSuffixes ==
    {<<"i", "n", "c">>, <<"l", "t", "d">>, <<"l", "l", "c">>, <<"c", "o", "r", "p">>,
     <<"c", "o">>, <<"s", "t", "o", "r", "e">>,
     <<"l", "o", "c", "a", "t", "i", "o", "n">>}

\* .replace(/\s+(inc|ltd|llc|corp|co|store|location)\.?$/i, ''): the leftmost
\* place from which whitespace, one of the words and an optional dot reach
\* the end
StripBusinessSuffix(str) ==
    LET tails == {w \o dot : w \in BusinessSuffixes, dot \in {<< >>, <<".">>}}
        cuts == {k \in 0..(Len(str) - 1) :
                    \E t \in tails, b \in (k + 1)..Len(str) :
                        /\ \A j \in (k + 1)..b : str[j] \in Space
                        /\ ToLowerCase(SubSeq(str, b + 1, Len(str))) = t}
    IN  IF cuts = {} THEN str
        ELSE SubSeq(str, 1, CHOOSE k \in cuts : \A j \in cuts : k <= j)

IsWordOrSpace(c) == c \in WordChars \cup Space

\* .replace(/[^\w\s]/g, '')
RemoveSpecial(str) == SelectSeq(str, IsWordOrSpace)

\* the same step removing everything but letters and digits
RemoveNonAlphanumeric(str) ==
    LET IsAlnum(c) == c \in WordChars \ {"_"} IN SelectSeq(str, IsAlnum)

\* normalized: the key merchants are compared by
Normalized(merchant) ==
    Trim(RemoveSpecial(StripBusinessSuffix(StripTrailingRun(ToLowerCase(merchant)))))

\* .split(/[\s#\d-]+/)[0].trim(): what precedes the first separator
FirstToken(str) ==
    LET seps == {k \in 1..Len(str) : str[k] \in SepChars}
    IN  Trim(IF seps = {} THEN str
             ELSE SubSeq(str, 1, (CHOOSE k \in seps : \A j \in seps : k <= j) - 1))

\* the raw merchant names analysed
MerchantPool ==
    {<<"A", "b", " ", "#", "1">>, <<"A", "B", " ", "C", "o", ".">>,
     <<"A", " ", "b">>, <<"A", "_", "b">>, <<"#", "C", "d">>, <<"#", "c", "d">>}

NormalizedOf == [merchant \in MerchantPool |-> Normalized(merchant)]

FirstTokenOf == [merchant \in MerchantPool |-> FirstToken(merchant)]

\* Object.keys(merchantCounts) with the counts: lists of distinct names
SimilarInputs ==
    UNION {{[merchants |-> ms, merchantCounts |-> cs] :
               ms \in {q \in [1..n -> MerchantPool] :
                          \A i, j \in 1..n : q[i] = q[j] => i = j},
               cs \in [1..n -> 1..MaxCount]} : n \in 0..MaxMerchants}

\* normalizedMerchants
NormalizedMerchants(in) ==
    [k \in 1..Len(in.merchants) |->
        [original |-> in.merchants[k], normalized |-> NormalizedOf[in.merchants[k]],
         count |-> in.merchantCounts[k]]]

\* the sort left out: the list as it is
SortByCountKeepsOrder(list) == list

\* similar.sort((a, b) => b.count - a.count): stable, highest count first
RECURSIVE SortByCount(_)
SortByCount(list) ==
    IF list = << >> THEN << >>
    ELSE LET d == SortByCount(SubSeq(list, 1, Len(list) - 1))
             x == list[Len(list)]
             n == Cardinality({i \in 1..Len(d) : d[i].count >= x.count})
         IN  SubSeq(d, 1, n) \o <<x>> \o SubSeq(d, n + 1, Len(d))

\* GroupLoop putting every merchant with the one before it
GroupLoopChain(normalizedMerchants, k, processed, groups) ==
    IF Len(normalizedMerchants) < 2 THEN << >>
    ELSE <<[groupName |-> FirstTokenOf[normalizedMerchants[1].original],
            merchants |-> [i \in 1..Len(normalizedMerchants) |->
                [name |-> normalizedMerchants[i].original,
                 count |-> normalizedMerchants[i].count]]]>>

\* the forEach of findSimilarMerchants from merchant k on
RECURSIVE GroupLoop(_, _, _, _)
GroupLoop(normalizedMerchants, k, processed, groups) ==
    IF k > Len(normalizedMerchants) THEN groups
    ELSE LET merchant == normalizedMerchants[k]
             Other(other) ==
                 /\ other.original \notin processed
                 /\ other.normalized = merchant.normalized
                 /\ other.original # merchant.original
             found == SelectSeq(normalizedMerchants, Other)
             sorted == SortByCount(<<merchant>> \o found)
         IN  IF merchant.original \in processed \/ found = << >>
             THEN GroupLoop(normalizedMerchants, k + 1, processed, groups)
             ELSE GroupLoop(normalizedMerchants, k + 1,
                      processed \cup {sorted[i].original : i \in 1..Len(sorted)},
                      Append(groups,
                          [groupName |-> FirstTokenOf[sorted[1].original],
                           merchants |-> [i \in 1..Len(sorted) |->
                               [name |-> sorted[i].original,
                                count |-> sorted[i].count]]]))

FindSimilarMerchants(in) == GroupLoop(NormalizedMerchants(in), 1, {}, << >>)

SimilarClosed == [pc |-> "closed", merchants |-> << >>, groups |-> << >>]

\* analyzeMerchantPatterns, its result shown in #smart-grouping-modal
AnalyzeMerchantPatterns(in) ==
    /\ similar.pc = "closed"
    /\ similar' = [pc |-> "shown", merchants |-> in.merchants,
                   groups |-> FindSimilarMerchants(in)]
    /\ UNCHANGED <<cacheVars, save, cleaner, io, bulk, view, budget, auto, categoryManager>>

\* Cancel in the smart grouping dialog
CancelSmartGrouping ==
    /\ similar.pc = "shown"
    /\ similar' = SimilarClosed
    /\ UNCHANGED <<cacheVars, save, cleaner, io, bulk, view, budget, auto, categoryManager>>

SimilarNext ==
    \/ \E in \in SimilarInputs : AnalyzeMerchantPatterns(in)
    \/ CancelSmartGrouping

(***************************************************************************)
(* getFilteredRows (the second definition in the class, which replaces the *)
(* first).  An instant is a day and whether midnight has passed; day 0 is  *)
(* Sunday 2024-12-01.  Date cells read month/day/year and parse to local   *)
(* midnight.                                                               *)
(***************************************************************************)
ViewRows == 2

\* the months the clock and the date cells lie in; month as getMonth gives it
Calendar ==
    <<[year |-> 2024, month |-> 11, days |-> 31],
      [year |-> 2025, month |-> 0, days |-> 31],
      [year |-> 2025, month |-> 1, days |-> 28]>>

RECURSIVE FirstDayOf(_)
FirstDayOf(k) == IF k = 1 THEN 0 ELSE FirstDayOf(k - 1) + Calendar[k - 1].days

\* the month of the calendar a day lies in
MonthAt(day) ==
    Calendar[CHOOSE k \in DOMAIN Calendar :
                 day \in FirstDayOf(k)..(FirstDayOf(k) + Calendar[k].days - 1)]

GetMonth(day) == MonthAt(day).month
GetFullYear(day) == MonthAt(day).year
GetDay(day) == day % 7

\* a time value: Invalid Date, or the day of a local midnight
NaN == [isNaN |-> TRUE, day |-> 0]
DateOf(day) == [isNaN |-> FALSE, day |-> day]

\* the number a run of decimal digits reads as
RECURSIVE ToNumber(_)
ToNumber(digits) ==
    IF digits = << >> THEN 0
    ELSE 10 * ToNumber(SubSeq(digits, 1, Len(digits) - 1))
            + (CHOOSE n \in 0..9 : DigitChars[n + 1] = digits[Len(digits)])

\* new Date(dateStr) for month/day/year
DateParse(dateStr) ==
    LET bars == {k \in 1..Len(dateStr) : dateStr[k] = "/"}
    IN  IF Cardinality(bars) # 2 \/ \E k \in 1..Len(dateStr) :
                                       dateStr[k] \notin Digit \cup {"/"}
        THEN NaN
        ELSE LET b1 == CHOOSE k \in bars : \A j \in bars : k <= j
                 b2 == CHOOSE k \in bars : \A j \in bars : j <= k
                 m == ToNumber(SubSeq(dateStr, 1, b1 - 1))
                 d == ToNumber(SubSeq(dateStr, b1 + 1, b2 - 1))
                 y == ToNumber(SubSeq(dateStr, b2 + 1, Len(dateStr)))
                 ks == {k \in DOMAIN Calendar :
                           /\ Calendar[k].year = y /\ Calendar[k].month = m - 1
                           /\ d \in 1..Calendar[k].days}
             IN  IF b1 = 1 \/ b2 = b1 + 1 \/ b2 = Len(dateStr) \/ ks = {}
                 THEN NaN
                 ELSE DateOf(FirstDayOf(CHOOSE k \in ks : TRUE) + d - 1)

\* transaction[4] as loaded: empty, not a date, 12/1/2024, 12/31/2024, 1/1/2025
DateCells ==
    {EmptyStr, <<"n", "/", "a">>,
     <<"1", "2", "/", "1", "/", "2", "0", "2", "4">>,
     <<"1", "2", "/", "3", "1", "/", "2", "0", "2", "4">>,
     <<"1", "/", "1", "/", "2", "0", "2", "5">>}

DateParseOf == [dateStr \in DateCells |-> DateParse(dateStr)]

\* the rows below the header: the date cell and the payweek cell of each
ViewTables ==
    [1..ViewRows -> [date : DateCells, payweek : {EmptyStr, <<"P", "W">>}]]

Periods == {"week", "payweek", "month", "year"}

\* the instants the clock is read at: 2024-12-14, 2024-12-31 and 2025-01-14
\* during the day, 2025-01-01 at midnight
NowInstants ==
    {[day |-> 13, late |-> TRUE], [day |-> 30, late |-> TRUE],
     [day |-> 31, late |-> FALSE], [day |-> 44, late |-> TRUE]}

Later(a, b) == a.day > b.day \/ (a.day = b.day /\ a.late /\ ~b.late)

\* a callback keeping every row with a date cell
InPeriodAnyDate(transaction, v) == Truthy(transaction.date)

\* the callback of transactions.filter
InPeriod(transaction, v) ==
    LET transactionDate == DateParseOf[transaction.date].day
        weekStart == v.now.day - GetDay(v.now.day)
    IN  IF ~Truthy(transaction.date) THEN FALSE
        ELSE IF DateParseOf[transaction.date].isNaN THEN FALSE
        ELSE IF v.currentPeriod = "week"
        THEN transactionDate >= weekStart /\ transactionDate <= weekStart + 6
        ELSE IF v.currentPeriod = "payweek"
        THEN IF Truthy(transaction.payweek)
             THEN v.now.day - transactionDate <= 14
             ELSE \/ transactionDate > v.now.day - 14
                  \/ transactionDate = v.now.day - 14 /\ ~v.now.late
        ELSE IF v.currentPeriod = "month"
        THEN /\ GetMonth(transactionDate) = v.selectedMonth
             /\ GetFullYear(transactionDate) = v.selectedYear
        ELSE GetFullYear(transactionDate) = v.selectedYear

\* getFilteredRows: the rows returned, by their place below the header
GetFilteredRows(v) ==
    [ran |-> TRUE,
     rows |-> {i \in DOMAIN v.transactions : InPeriod(v.transactions[i], v)}]

NotRun == [ran |-> FALSE, rows |-> {}]

\* the constructor runs on 2024-12-14
ViewStart ==
    [now |-> [day |-> 13, late |-> TRUE], currentPeriod |-> "month",
     selectedMonth |-> GetMonth(13), selectedYear |-> GetFullYear(13),
     transactions |-> << >>, returned |-> NotRun]

TimePasses(now) ==
    /\ Later(now, view.now)
    /\ view' = [view EXCEPT !.now = now, !.returned = NotRun]
    /\ UNCHANGED <<cacheVars, save, cleaner, io, bulk, similar, budget, auto, categoryManager>>

\* loadData: the rows are loaded and the views drawn
LoadTransactions(transactions) ==
    /\ view.transactions = << >>
    /\ LET v == [view EXCEPT !.transactions = transactions]
       IN  view' = [v EXCEPT !.returned = GetFilteredRows(v)]
    /\ UNCHANGED <<cacheVars, save, cleaner, io, bulk, similar, budget, auto, categoryManager>>

\* changePeriod: a period button is clicked and the current view drawn again
ChangePeriod(newPeriod) ==
    /\ view.transactions # << >>
    /\ LET v == [view EXCEPT !.currentPeriod = newPeriod]
       IN  view' = [v EXCEPT !.returned = GetFilteredRows(v)]
    /\ UNCHANGED <<cacheVars, save, cleaner, io, bulk, similar, budget, auto, categoryManager>>

\* disconnect: this.rowsData = []
DisconnectView ==
    /\ view.transactions # << >>
    /\ view' = [view EXCEPT !.transactions = << >>, !.returned = NotRun]
    /\ UNCHANGED <<cacheVars, save, cleaner, io, bulk, similar, budget, auto, categoryManager>>

ViewNext ==
    \/ \E now \in NowInstants : TimePasses(now)
    \/ \E transactions \in ViewTables : LoadTransactions(transactions)
    \/ \E newPeriod \in Periods : ChangePeriod(newPeriod)
    \/ DisconnectView

(***************************************************************************)
(* The budget amounts and their conversion between periods.  An amount is  *)
(* a fraction in lowest terms.  The cell writes of saveBudgets, which      *)
(* updateBudget starts, touch none of this state.                          *)
(***************************************************************************)
payweeksPerYear == 26

RECURSIVE GCD(_, _)
GCD(a, b) == IF b = 0 THEN a ELSE GCD(b, a % b)

\* the fraction n/d (d > 0, n >= 0) in lowest terms
Rat(n, d) == LET g == GCD(n, d) IN [n |-> n \div g, d |-> d \div g]
Times(a, k) == Rat(a.n * k, a.d)
Over(a, k) == Rat(a.n, a.d * k)

RECURSIVE Pow10(_)
Pow10(k) == IF k = 0 THEN 1 ELSE 10 * Pow10(k - 1)

\* parseFloat(amount) || 0 for text of digits with at most one point; any
\* other text gives NaN and so 0
ParseFloatOr0(amount) ==
    LET dots == {k \in 1..Len(amount) : amount[k] = "."}
        ok == /\ amount # << >>
              /\ Cardinality(dots) <= 1
              /\ \A k \in 1..Len(amount) : amount[k] \in Digit \cup {"."}
              /\ dots # {1} \/ Len(amount) > 1
    IN  IF ~ok THEN Rat(0, 1)
        ELSE IF dots = {} THEN Rat(ToNumber(amount), 1)
        ELSE LET dot == CHOOSE k \in dots : TRUE
                 frac == SubSeq(amount, dot + 1, Len(amount))
             IN  Rat(ToNumber(SubSeq(amount, 1, dot - 1)) * Pow10(Len(frac))
                        + ToNumber(frac),
                     Pow10(Len(frac)))

\* convertBudgetFromBase
ConvertBudgetFromBase(baseAmount, targetPeriod) ==
    IF targetPeriod = "payweek" THEN baseAmount
    ELSE IF targetPeriod = "week" THEN Over(baseAmount, 2)
    ELSE IF targetPeriod = "month" THEN Over(Times(baseAmount, payweeksPerYear), 12)
    ELSE IF targetPeriod = "year" THEN Times(baseAmount, payweeksPerYear)
    ELSE baseAmount

\* convertBudgetToBase taking a month for a twelfth of 24 payweeks
ConvertBudgetToBaseBy24(amount, sourcePeriod) ==
    IF sourcePeriod = "week" THEN Times(amount, 2)
    ELSE IF sourcePeriod = "month" THEN Over(Times(amount, 12), 24)
    ELSE IF sourcePeriod = "year" THEN Over(amount, payweeksPerYear)
    ELSE amount

\* convertBudgetToBase
ConvertBudgetToBase(amount, sourcePeriod) ==
    IF sourcePeriod = "payweek" THEN amount
    ELSE IF sourcePeriod = "week" THEN Times(amount, 2)
    ELSE IF sourcePeriod = "month" THEN Over(Times(amount, 12), payweeksPerYear)
    ELSE IF sourcePeriod = "year" THEN Over(amount, payweeksPerYear)
    ELSE amount

BudgetCategories == {"Food", "Rent"}

\* what is typed in a budget field: nothing, 100, 12.5, 0.1, 7
AmountInputs ==
    {EmptyStr, <<"1", "0", "0">>, <<"1", "2", ".", "5">>, <<"0", ".", "1">>, <<"7">>}

ParseFloatOr0Of == [amount \in AmountInputs |-> ParseFloatOr0(amount)]

NotEntered == [is |-> FALSE, category |-> "", amount |-> Rat(0, 1), period |-> ""]
NotDrawn == [is |-> FALSE, amounts |-> << >>]

\* the category and budget cells of the rows loaded, below the header
BudgetTables ==
    {<< >>,
     <<[category |-> "Food", budget |-> <<"7">>],
       [category |-> "Rent", budget |-> EmptyStr]>>,
     <<[category |-> "Food", budget |-> EmptyStr],
       [category |-> "Food", budget |-> <<"1", "0", "0">>]>>}

\* loadBudgets: this.budgets rebuilt from the rows; for a category the last
\* row with a budget cell that parses gives the amount
LoadBudgets(rows) ==
    LET Has(i) == /\ rows[i].category # "" /\ Truthy(rows[i].budget)
                  /\ rows[i].budget \in AmountInputs
        with == {i \in DOMAIN rows : Has(i)}
    IN  [c \in {rows[i].category : i \in with} |->
            ParseFloatOr0Of[rows[CHOOSE i \in with :
                /\ rows[i].category = c
                /\ \A j \in with : rows[j].category = c => j <= i].budget]]

\* renderBudgetsView: this.loadBudgets(), the budgets afterwards
RenderBudgets(budgets, rows) == LoadBudgets(rows)

\* base: history, the base amount of the last updateBudget of each category
BudgetStart(rows) ==
    [budgetPeriod |-> "payweek", budgets |-> << >>, rows |-> rows,
     base |-> << >>, entered |-> NotEntered, drawn |-> NotDrawn]

\* updateBudget
UpdateBudget(categoryName, amount) ==
    /\ budget' =
         [budget EXCEPT
            !.budgets = CacheSet(@, categoryName,
                ConvertBudgetToBase(ParseFloatOr0Of[amount], budget.budgetPeriod)),
            !.base = CacheSet(@, categoryName,
                ConvertBudgetToBase(ParseFloatOr0Of[amount], budget.budgetPeriod)),
            !.entered = [is |-> TRUE, category |-> categoryName,
                         amount |-> ParseFloatOr0Of[amount],
                         period |-> budget.budgetPeriod],
            !.drawn = NotDrawn]
    /\ UNCHANGED <<cacheVars, save, cleaner, io, bulk, similar, view, auto, categoryManager>>

\* onBudgetPeriodChange: the period is set and renderBudgetsView, after its
\* loadBudgets, converts this.budgets[category.name] || 0 for every category
OnBudgetPeriodChange(newPeriod) ==
    /\ budget.budgetPeriod # newPeriod
    /\ LET budgets == RenderBudgets(budget.budgets, budget.rows)
       IN  budget' =
             [budget EXCEPT
                !.budgetPeriod = newPeriod,
                !.budgets = budgets,
                !.entered = NotEntered,
                !.drawn = [is |-> TRUE,
                           amounts |-> [c \in BudgetCategories |->
                               ConvertBudgetFromBase(
                                   IF c \in DOMAIN budgets
                                   THEN budgets[c] ELSE Rat(0, 1),
                                   newPeriod)]]]
    /\ UNCHANGED <<cacheVars, save, cleaner, io, bulk, similar, view, auto, categoryManager>>

BudgetNext ==
    \/ \E categoryName \in BudgetCategories, amount \in AmountInputs :
          UpdateBudget(categoryName, amount)
    \/ \E newPeriod \in Periods : OnBudgetPeriodChange(newPeriod)

(***************************************************************************)
(* The sheet identifier on its way to the store: Validators.sheetId, the   *)
(* SheetsAPI methods that call it, and the data load through Apps Script.  *)
(***************************************************************************)
\* Validators.sheetId: the shortest identifier accepted
MinSheetIdLength == 20

Rep(c, n) == [k \in 1..n |-> c]

\* a JavaScript value given as sheet identifier
Str(chars) == [type |-> "string", chars |-> chars]
Undefined == [type |-> "undefined", chars |-> << >>]
NumberValue == [type |-> "number", chars |-> << >>]

idGood == Str(Rep("a", MinSheetIdLength))
idPadded == Str(<<" ">> \o Rep("b", MinSheetIdLength) \o <<" ">>)
idShort == Str(<<"s", "h", "o", "r", "t">>)
idAlmost == Str(<<" ">> \o Rep("c", MinSheetIdLength - 1) \o <<" ">>)

\* identifiers a caller may hand to a SheetsAPI method
SheetIdInputs == {idGood, idPadded, idShort, idAlmost, Str(EmptyStr), Undefined,
                  NumberValue}

\* identifiers the stored credentials may hold: Storage.getCredentials gives ''
\* when none is stored
StoredSheetIds == {idGood, idShort, Str(EmptyStr)}

\* Validators.sheetId: the trimmed identifier, or the error thrown
ValidatorsSheetId(sheetId) ==
    IF sheetId.type # "string" \/ ~Truthy(sheetId.chars)
    THEN [ok |-> FALSE, error |-> "Sheet ID is required", value |-> sheetId]
    ELSE IF Len(Trim(sheetId.chars)) < MinSheetIdLength
    THEN [ok |-> FALSE, error |-> "Invalid Sheet ID format", value |-> sheetId]
    ELSE [ok |-> TRUE, error |-> "none", value |-> Str(Trim(sheetId.chars))]

IoIdle == [wire |-> << >>, error |-> "none", credentials |-> Str(EmptyStr)]

\* a request leaves for the store: who sends it, with which method, the
\* identifier the caller gave and the one that is sent
Send(op, method, given, sent) ==
    [io EXCEPT !.wire = Append(@, [op |-> op, method |-> method,
                                   given |-> given, sent |-> sent]),
               !.error = "none"]

\* a SheetsAPI method that validates first, then sends its request
ValidatedRequest(op, method, sheetId) ==
    LET v == ValidatorsSheetId(sheetId)
    IN  IF v.ok THEN Send(op, method, sheetId, v.value)
        ELSE [io EXCEPT !.error = v.error]

\* SheetsAPI.connect: the validated identifier is stored, then read with
Connect(sheetId) ==
    /\ Len(io.wire) < MaxWire
    /\ LET v == ValidatorsSheetId(sheetId)
           io1 == ValidatedRequest("connect", "GET", sheetId)
       IN  io' = IF v.ok THEN [io1 EXCEPT !.credentials = v.value] ELSE io1
    /\ UNCHANGED <<cacheVars, save, cleaner, calcVars>>

\* SheetsAPI.loadData
LoadData(sheetId) ==
    /\ Len(io.wire) < MaxWire
    /\ io' = ValidatedRequest("loadData", "GET", sheetId)
    /\ UNCHANGED <<cacheVars, save, cleaner, calcVars>>

\* SheetsAPI.updateCell
UpdateCell(sheetId) ==
    /\ Len(io.wire) < MaxWire
    /\ io' = ValidatedRequest("updateCell", "UPDATE", sheetId)
    /\ UNCHANGED <<cacheVars, save, cleaner, calcVars>>

\* SheetsAPI.batchUpdateCells
BatchUpdateCells(sheetId) ==
    /\ Len(io.wire) < MaxWire
    /\ io' = ValidatedRequest("batchUpdateCells", "BATCH_UPDATE", sheetId)
    /\ UNCHANGED <<cacheVars, save, cleaner, calcVars>>

\* SheetsAPI.updateRange
UpdateRange(sheetId) ==
    /\ Len(io.wire) < MaxWire
    /\ io' = ValidatedRequest("updateRange", "UPDATE", sheetId)
    /\ UNCHANGED <<cacheVars, save, cleaner, calcVars>>

\* selectSheet / disconnect: updateCredentials stores the identifier as given
UpdateCredentials(sheetId) ==
    /\ io.credentials # sheetId
    /\ io' = [io EXCEPT !.credentials = sheetId]
    /\ UNCHANGED <<cacheVars, save, cleaner, calcVars>>

\* loadDataFromAppsScript: appsScriptRequest('GET', {sheetId: credentials.sheetId})
LoadDataFromAppsScript ==
    /\ Len(io.wire) < MaxWire
    /\ io' = Send("loadDataFromAppsScript", "GET", io.credentials, io.credentials)
    /\ UNCHANGED <<cacheVars, save, cleaner, calcVars>>

IoNext ==
    \/ \E sheetId \in SheetIdInputs : Connect(sheetId)
    \/ \E sheetId \in SheetIdInputs : LoadData(sheetId)
    \/ \E sheetId \in SheetIdInputs : UpdateCell(sheetId)
    \/ \E sheetId \in SheetIdInputs : BatchUpdateCells(sheetId)
    \/ \E sheetId \in SheetIdInputs : UpdateRange(sheetId)
    \/ \E sheetId \in StoredSheetIds : UpdateCredentials(sheetId)
    \/ LoadDataFromAppsScript

(***************************************************************************)
(* autoCleanNewMerchants: after a load, rows with a merchant and a blank   *)
(* merchant group are filled, from a group the merchant has on another row *)
(* or from the cleaner, and the cleaner's names go to a review dialog.     *)
(***************************************************************************)
\* data rows of the tables loaded for the auto-clean
AutoRows == 3
\* the merchant and merchant-group cells a loaded row may carry
AutoMerchants == {mX, mY, EmptyStr}
AutoCells ==
    {[merchant |-> mX, group |-> EmptyStr], [merchant |-> mX, group |-> gSpG],
     [merchant |-> mX, group |-> gH], [merchant |-> mY, group |-> EmptyStr],
     [merchant |-> EmptyStr, group |-> gH]}
AutoTables == [1..AutoRows -> AutoCells]
\* columnIndices.merchantGroup: where the header is found, or headers.length
\* (up to 26 with the A:Z load) when ensureColumn adds the column
MerchantGroupIndices == {3, 25, 26}
\* the names the cleaner may answer with
CleanedOutputs == {<<"C">>, EmptyStr}

\* the characters of codes 65 to 91
CharsFrom65 == UpperLetters \o <<"[">>

\* String.fromCharCode(65 + index)
FromCharCode65(index) == <<CharsFrom65[index + 1]>>

\* `${columnLetter}${i + 1}` of autoCleanNewMerchants, for table row i
AutoCellRange(index, i) == FromCharCode65(index) \o NumberToString(i + 1)

AutoNone ==
    [pc |-> "none", merchantGroup |-> MerchantGroupCol, sheetId |-> TRUE,
     rows |-> << >>, store |-> << >>, start |-> << >>, queued |-> << >>,
     inFlight |-> << >>, unclearedMerchants |-> {}, sent |-> {},
     pendingMerchantUpdates |-> << >>]

\* m && m.trim()
NonBlank(s) == Truthy(Trim(s))

\* the rows that give their merchant, trimmed to t, a group
RowsGrouping(rows, t) ==
    {i \in DOMAIN rows : /\ NonBlank(rows[i].merchant)
                         /\ NonBlank(rows[i].group)
                         /\ Trim(rows[i].merchant) = t}

\* existingMerchantGroups.has(t)
ExistingHas(rows, t) == RowsGrouping(rows, t) # {}

\* existingMerchantGroups.get(t): the last row's set() is the one that stays
ExistingGet(rows, t) ==
    LET S == RowsGrouping(rows, t)
        last == CHOOSE i \in S : \A j \in S : j <= i
    IN  Trim(rows[last].group)

\* the test of the merchant group left out
NeedsGroupAlways(row) == NonBlank(row.merchant)

\* merchant && merchant.trim() && (!merchantGroup || merchantGroup.trim() === '')
NeedsGroup(row) == NonBlank(row.merchant) /\ ~NonBlank(row.group)

\* the updates pushed for the rows of S, in row order; value[i] is the name pushed.
\* Data row i of the model is table row i: the header is table row 0
UpdatesFor(S, index, value) ==
    [k \in 1..Cardinality(S) |->
        LET i == CHOOSE j \in S : Cardinality({h \in S : h < j}) = k - 1
        IN  [row |-> i, range |-> AutoCellRange(index, i), value |-> value[i]]]

\* the store after a batch it accepted
StoreAfter(store, updates) ==
    [i \in DOMAIN store |->
        LET U == {k \in DOMAIN updates : updates[k].row = i}
        IN  IF U = {} THEN store[i]
            ELSE updates[CHOOSE k \in U : \A h \in U : h <= k].value]

\* loadData and findColumnIndices: the table as the store holds it.  One load
\* is followed
AutoLoad(rows, index, hasSheetId) ==
    /\ auto.pc = "none"
    /\ auto' = [AutoNone EXCEPT !.pc = "loaded", !.merchantGroup = index,
                                !.sheetId = hasSheetId, !.rows = rows,
                                !.store = [i \in DOMAIN rows |-> rows[i].group],
                                !.start = rows]
    /\ UNCHANGED <<cacheVars, save, cleaner, io, bulk, similar, view, budget,
                   categoryManager>>

\* autoCleanNewMerchants from the call of the cleaner on.  has and get are the
\* cleaner's answer, threw says that the cleaner threw instead
AfterExistingGroups(a, has, get, threw) ==
    IF a.unclearedMerchants = {} THEN [a EXCEPT !.pc = "idle"]
    ELSE LET a1 == [a EXCEPT !.sent = a.unclearedMerchants]
             S == {i \in DOMAIN a.rows : /\ NeedsGroup(a.rows[i])
                                          /\ Trim(a.rows[i].merchant) \in has}
             Cleaned(i) == get[Trim(a.rows[i].merchant)]
             updates == UpdatesFor(S, a.merchantGroup, [i \in S |-> Cleaned(i)])
         IN  IF threw \/ ~a.sheetId THEN [a1 EXCEPT !.pc = "idle"]
             ELSE [a1 EXCEPT
                     !.rows = [i \in DOMAIN a.rows |->
                                 IF i \in S
                                 THEN [a.rows[i] EXCEPT !.group = Cleaned(i)]
                                 ELSE a.rows[i]],
                     !.queued = a.queued \o updates,
                     !.pendingMerchantUpdates =
                         IF Len(updates) > 0 THEN updates ELSE @,
                     !.pc = IF Len(updates) > 0 THEN "review" ELSE "idle"]

\* the answers the cleaner may give for the names: the names it has a result
\* for, the results, and whether it threw instead
CleanerAnswers(names) ==
    {[has |-> has, get |-> get, threw |-> threw] :
        has \in SUBSET names, get \in [names -> CleanedOutputs], threw \in BOOLEAN}

\* autoCleanNewMerchants, to its first await
AutoCleanNewMerchants ==
    /\ auto.pc = "loaded"
    /\ LET rows == auto.rows
           S == {i \in DOMAIN rows : /\ NeedsGroup(rows[i])
                                      /\ ExistingHas(rows, Trim(rows[i].merchant))}
           Existing(i) == ExistingGet(rows, Trim(rows[i].merchant))
           existingGroupUpdates ==
               UpdatesFor(S, auto.merchantGroup, [i \in S |-> Existing(i)])
           a == [auto EXCEPT
                   !.rows = [i \in DOMAIN rows |->
                               IF i \in S
                               THEN [rows[i] EXCEPT !.group = Existing(i)]
                               ELSE rows[i]],
                   !.queued = existingGroupUpdates,
                   !.unclearedMerchants =
                       {Trim(rows[i].merchant) :
                          i \in {j \in DOMAIN rows : NeedsGroup(rows[j])} \ S}]
       IN  IF a.sheetId /\ Len(existingGroupUpdates) > 0
           THEN auto' = [a EXCEPT !.pc = "writing",
                                  !.inFlight = existingGroupUpdates]
           ELSE \E r \in CleanerAnswers(a.unclearedMerchants) :
                   auto' = AfterExistingGroups(a, r.has, r.get, r.threw)
    /\ UNCHANGED <<cacheVars, save, cleaner, io, bulk, similar, view, budget,
                   categoryManager>>

\* batchUpdateCells(sheetId, existingGroupUpdates) returns or throws; a throw is
\* logged and the handler goes on
ExistingGroupsWritten(resolved) ==
    /\ auto.pc = "writing"
    /\ LET a == [auto EXCEPT
                   !.store = IF resolved THEN StoreAfter(@, auto.inFlight) ELSE @,
                   !.inFlight = << >>]
       IN  \E r \in CleanerAnswers(a.unclearedMerchants) :
              auto' = AfterExistingGroups(a, r.has, r.get, r.threw)
    /\ UNCHANGED <<cacheVars, save, cleaner, io, bulk, similar, view, budget,
                   categoryManager>>

\* cancelMerchantCleaning: the dialog is removed, the welcome view is shown
CancelMerchantCleaning ==
    /\ auto.pc = "review"
    /\ auto' = [auto EXCEPT !.pc = "idle"]
    /\ UNCHANGED <<cacheVars, save, cleaner, io, bulk, similar, view, budget,
                   categoryManager>>

AutoNext ==
    \/ \E rows \in AutoTables, index \in MerchantGroupIndices, hasSheetId \in BOOLEAN :
          AutoLoad(rows, index, hasSheetId)
    \/ AutoCleanNewMerchants
    \/ \E resolved \in BOOLEAN : ExistingGroupsWritten(resolved)
    \/ CancelMerchantCleaning

(***************************************************************************)
(* CategoryManager: the list of categories and the member lists of the     *)
(* category groups.                                                        *)
(***************************************************************************)
\* Object.keys(CONFIG.CATEGORY_GROUPS), in order
GroupNames == <<"Living Expenses", "Lifestyle", "Financial", "Personal">>
GroupNameSet == {GroupNames[k] : k \in DOMAIN GroupNames}

\* CONFIG.CATEGORY_GROUPS
CATEGORY_GROUPS ==
    [g \in GroupNameSet |->
        CASE g = "Living Expenses" ->
                 <<"Groceries", "Utilities", "Rent", "Insurance", "Healthcare">>
          [] g = "Lifestyle" ->
                 <<"Dining", "Entertainment", "Shopping", "Travel", "Hobbies">>
          [] g = "Financial" ->
                 <<"CC Payment", "Savings", "Investments", "Bank Fees">>
          [] OTHER -> <<"Transportation", "Education", "Gifts", "Other">>]

\* CONFIG.CATEGORIES
CATEGORIES ==
    <<"Transportation", "Groceries", "Dining", "Entertainment", "Utilities",
      "Healthcare", "Travel", "Shopping", "CC Payment", "Other", "Uncategorized">>

\* the constructor, with nothing stored yet
CategoryManagerNew ==
    [categories |-> CATEGORIES, categoryGroups |-> CATEGORY_GROUPS, calls |-> 0]

\* calls of the handlers followed from the constructor on
MaxCategoryCalls == 3

\* the record after one more call that left categories and groups
AfterCall(categories, groups) ==
    [categories |-> categories, categoryGroups |-> groups,
     calls |-> categoryManager.calls + 1]

\* the category names the views hand to the handlers
CategoryArgs == {"Groceries", "Dining", "Uncategorized", "Pets"}
\* the groups selected in the views
GroupArgs == {"Living Expenses", "Lifestyle"}
\* what is typed into the new-category input
AddInputs == {<<"R", "e", "n", "t">>, <<" ", "P", "e", "t", "s">>, <<"<", ">">>}
\* what the prompt of editCategory returns; "" for an empty answer or Cancel
EditInputs == {"Groceries", "Pets", ""}

\* the characters sanitizeInput removes
StrippedChars == {"<", ">", "\"", "'"}

\* Formatters.sanitizeInput: input.trim().replace(/[<>"']/g, '')
SanitizeInput(input) == SelectSeq(Trim(input), LAMBDA c : c \notin StrippedChars)

\* the name spelled by the characters typed
NameOf(chars) ==
    CASE chars = <<"R", "e", "n", "t">> -> "Rent"
      [] chars = <<"P", "e", "t", "s">> -> "Pets"
      [] OTHER -> ""

\* Array.prototype.includes
ArrayIncludes(list, x) == \E k \in DOMAIN list : list[k] = x

\* list.indexOf(x), counted from 1; 0 when x is not in the list
IndexOf(list, x) ==
    IF ArrayIncludes(list, x)
    THEN CHOOSE k \in DOMAIN list : list[k] = x /\ \A h \in 1..(k - 1) : list[h] # x
    ELSE 0

\* index = list.indexOf(x); if (index > -1) list.splice(index, 1)
SpliceFirst(list, x) ==
    LET index == IndexOf(list, x)
    IN  IF index = 0 THEN list
        ELSE SubSeq(list, 1, index - 1) \o SubSeq(list, index + 1, Len(list))

\* index = list.indexOf(x); if (index > -1) list[index] = y
ReplaceFirst(list, x, y) ==
    LET index == IndexOf(list, x)
    IN  IF index = 0 THEN list ELSE [list EXCEPT ![index] = y]

\* the forEach over the groups that splices the category out of each list
SpliceFromGroups(groups, categoryName) ==
    [g \in DOMAIN groups |-> SpliceFirst(groups[g], categoryName)]

\* findCategoryGroup: the first group, in the order of the keys, whose list
\* includes the category; "" for null
FindCategoryGroup(groups, categoryName) ==
    LET K == {k \in DOMAIN GroupNames : ArrayIncludes(groups[GroupNames[k]], categoryName)}
    IN  IF K = {} THEN ""
        ELSE GroupNames[CHOOSE k \in K : \A h \in K : k <= h]

\* findCategoryGroup(category) || 'Personal' of the category views
GroupShown(groups, categoryName) ==
    IF FindCategoryGroup(groups, categoryName) # ""
    THEN FindCategoryGroup(groups, categoryName)
    ELSE "Personal"

catUnchanged == <<cacheVars, save, cleaner, io, bulk, similar, view, budget, auto>>

\* addCategory(categoryName, groupName)
AddCategory(categoryName, groupName) ==
    LET sanitizedName == NameOf(SanitizeInput(categoryName))
    IN  /\ categoryManager.calls < MaxCategoryCalls
        /\ sanitizedName # ""
        /\ ~ArrayIncludes(categoryManager.categories, sanitizedName)
        /\ categoryManager' =
              AfterCall(Append(categoryManager.categories, sanitizedName),
                        IF groupName \in DOMAIN categoryManager.categoryGroups
                        THEN [categoryManager.categoryGroups EXCEPT
                                 ![groupName] = Append(@, sanitizedName)]
                        ELSE categoryManager.categoryGroups)
        /\ UNCHANGED catUnchanged

\* removeCategory(categoryName)
RemoveCategory(categoryName) ==
    /\ categoryManager.calls < MaxCategoryCalls
    /\ ArrayIncludes(categoryManager.categories, categoryName)
    /\ categoryManager' =
          AfterCall(SpliceFirst(categoryManager.categories, categoryName),
                    SpliceFromGroups(categoryManager.categoryGroups, categoryName))
    /\ UNCHANGED catUnchanged

\* moveCategory(categoryName, newGroupName), newGroupName one of the options
MoveCategory(categoryName, newGroupName) ==
    /\ categoryManager.calls < MaxCategoryCalls
    /\ LET removed == SpliceFromGroups(categoryManager.categoryGroups, categoryName)
       IN  categoryManager' =
              AfterCall(categoryManager.categories,
                        IF ArrayIncludes(removed[newGroupName], categoryName)
                        THEN removed
                        ELSE [removed EXCEPT ![newGroupName] = Append(@, categoryName)])
    /\ UNCHANGED catUnchanged

\* editCategory(categoryName), the prompt answering newName
EditCategory(categoryName, newName) ==
    /\ categoryManager.calls < MaxCategoryCalls
    /\ newName # "" /\ newName # categoryName
    /\ categoryManager' =
          AfterCall(ReplaceFirst(categoryManager.categories, categoryName, newName),
                    [g \in DOMAIN categoryManager.categoryGroups |->
                        ReplaceFirst(categoryManager.categoryGroups[g],
                                     categoryName, newName)])
    /\ UNCHANGED catUnchanged

\* deleteCategory(categoryName), confirmed
DeleteCategory(categoryName) ==
    /\ categoryManager.calls < MaxCategoryCalls
    /\ categoryManager' =
          AfterCall(SpliceFirst(categoryManager.categories, categoryName),
                    SpliceFromGroups(categoryManager.categoryGroups, categoryName))
    /\ UNCHANGED catUnchanged

CategoryNext ==
    \/ \E categoryName \in AddInputs, groupName \in GroupArgs :
          AddCategory(categoryName, groupName)
    \/ \E categoryName \in CategoryArgs : RemoveCategory(categoryName)
    \/ \E categoryName \in CategoryArgs, newGroupName \in GroupArgs :
          MoveCategory(categoryName, newGroupName)
    \/ \E categoryName \in CategoryArgs, newName \in EditInputs :
          EditCategory(categoryName, newName)
    \/ \E categoryName \in CategoryArgs : DeleteCategory(categoryName)

Init ==
    /\ CacheInit
    /\ save = SaveIdle
    /\ cleaner = CleanerIdle
    /\ io = IoIdle
    /\ bulk = BulkIdle
    /\ similar = SimilarClosed
    /\ view = ViewStart
    /\ budget \in {BudgetStart(rows) : rows \in BudgetTables}
    /\ auto = AutoNone
    /\ categoryManager = CategoryManagerNew

Next == CacheNext

Spec == Init /\ [][Next]_vars

\* the review dialog's Save alone, over the tables as loaded
SpecSave == Init /\ [][SaveNext]_vars

\* the merchant cleaner alone
SpecClean == Init /\ [][CleanNext]_vars

\* the requests to the store alone
SpecIO == Init /\ [][IoNext]_vars

\* the bulk cleaner and the GPT calls it waits for
SpecBulk == Init /\ [][BulkNext]_vars

\* the smart grouping proposals alone
SpecSimilar == Init /\ [][SimilarNext]_vars

\* the period filter alone
SpecView == Init /\ [][ViewNext]_vars

\* the budgets alone
SpecBudget == Init /\ [][BudgetNext]_vars

\* the edit dialog with a rename of a group and a flush
SpecFlush == Init /\ [][FlushNext]_vars

\* the edit dialog with the handlers that replace the row table
SpecReload == Init /\ [][ReloadNext]_vars

\* the auto-clean after a load, with its review dialog
SpecAuto == Init /\ [][AutoNext]_vars

\* the category manager alone
SpecCategory == Init /\ [][CategoryNext]_vars

(***************************************************************************)
(* Properties of the editing cache.                                        *)
(***************************************************************************)
GroupCell(table, i) == table[i][MerchantGroupCol]

\* C1: a revert leaves the live table equal, cell for cell, to the table as it
\* was when the editing session was opened, and leaves the cache disabled,
\* whatever applies were made in the session and through whichever dialog action
C1_RevertRestoresSessionTable ==
    [][CancelDiscard =>
        /\ rowsData' = session.base
        /\ ~merchantEditingCache'.enabled]_vars

\* C2: when a flush succeeds, every row whose group was set by an apply since the
\* session was opened has had its current live group value sent to the store;
\* afterwards the cache is disabled and the live table still holds the values
C2_FlushSendsEveryAppliedRow ==
    [][((AcceptNothingToSave /\ merchantEditingCache.enabled) \/ CommitResolves) =>
        /\ \A r \in session.touched :
              /\ r \in DOMAIN flight.issued
              /\ flight.issued[r] = GroupCell(rowsData, r)
        /\ ~merchantEditingCache'.enabled
        /\ merchantEditingCache'.originalData = NullData
        /\ merchantEditingCache'.changedRows = {}
        /\ rowsData' = rowsData]_vars

C4_ApplyDuringFlushStaysChanged ==
    [][(CommitResolves /\ flight.during \subseteq merchantEditingCache.changedRows) =>
        flight.during \subseteq merchantEditingCache'.changedRows]_vars

ListedMerchant(i) ==
    IF rowsData[i][MerchantCol] = << >> THEN Unknown ELSE rowsData[i][MerchantCol]

C7_ReportedCountIsConfirmedCount ==
    (save.pc = "done" /\ save.batch # "none") =>
        /\ save.batch = "failed" =>
              /\ save.issued = save.finalUpdates
              /\ save.successCount = save.confirmed
              /\ save.successCount \in 0..Len(save.finalUpdates)
        /\ save.batch = "ok" => save.successCount = Len(save.finalUpdates)
        /\ save.enterApp

\* C8: when the GPT call fails, cleanMerchantName returns the regex-cleaned name
\* it computed for that input
C8_GptFailureReturnsRegexCleaned ==
    cleaner.via = "gpt-failed" =>
        /\ cleaner.pc = "idle"
        /\ cleaner.returned = cleaner.regexCleaned

\* the rule that wins for a trimmed name: the first one, in list order, whose
\* pattern matches it
MatchingRules(str) == {k \in 1..Len(RegexPatterns) : Matches(RegexPatterns[k], str)}
FirstMatch(str) == CHOOSE k \in MatchingRules(str) : \A j \in MatchingRules(str) : k <= j
FirstMatchWins(name) ==
    IF MatchingRules(Trim(name)) = {} THEN Trim(name)
    ELSE Trim(ApplyRule(RegexPatterns[FirstMatch(Trim(name))], Trim(name)))
FirstMatchWinsOf == [name \in NameInputs \cup {EmptyStr} |-> FirstMatchWins(name)]

\* C10: cleanWithRegex returns what the first rule, in list order, whose pattern
\* matches the trimmed input makes of it (a fixed literal replaces the whole
\* name), and the trimmed input when no pattern matches
C10_FirstMatchingRuleWins ==
    cleaner.regexIn \in NameInputs =>
        cleaner.regexOut = FirstMatchWinsOf[cleaner.regexIn]

\* the identifier is a string of at least MinSheetIdLength characters once trimmed
IsValidSheetId(sheetId) ==
    /\ sheetId.type = "string"
    /\ Len(Trim(sheetId.chars)) >= MinSheetIdLength

\* C9: no request goes to the store for a sheet identifier that is missing, not
\* a string, or shorter than 20 characters after trimming, on any path
C9_NoRequestWithInvalidSheetId ==
    \A k \in DOMAIN io.wire : IsValidSheetId(io.wire[k].given)


\* the known-brand rules: a fixed literal that names a brand
BrandRules ==
    {k \in DOMAIN RegexPatterns :
        /\ ~Includes(RegexPatterns[k].cleanName, Dollar1)
        /\ Truthy(Trim(RegexPatterns[k].cleanName))}

\* the known-brand rules whose pattern matches the name
BrandMatches(name) == {k \in BrandRules : Matches(RegexPatterns[k], Trim(name))}

BrandMatchesOf == [name \in NameInputs \cup BrandInputs |-> BrandMatches(name)]

\* C11: when the name last given to cleanWithRegex matches a known-brand rule,
\* the name returned is the fixed brand name of the first such rule, and
\* cleaning the returned name once more, in the state the patterns are left
\* in, returns it unchanged
C11_BrandNameIsFixedAndIdempotent ==
    (cleaner.regexIn \in NameInputs \cup BrandInputs
        /\ BrandMatchesOf[cleaner.regexIn] # {}) =>
        LET ks == BrandMatchesOf[cleaner.regexIn]
            k == CHOOSE x \in ks : \A y \in ks : x <= y
        IN  /\ cleaner.regexOut = RegexPatterns[k].cleanName
            /\ CleanWithRegexOf[cleaner.regexOut, cleaner.lastIndex].out
                   = cleaner.regexOut

\* a name matching two brand rules was cleaned after a call that left the
\* last pattern's lastIndex moved
C11_Witness ==
    /\ cleaner.regexIn \in BrandInputs
    /\ Cardinality(BrandMatchesOf[cleaner.regexIn]) > 1
    /\ cleaner.regexOut = RegexPatterns[1].cleanName
    /\ cleaner.lastIndex # 0


\* the distinct non-blank strings of a list
NonBlankStrings(list) ==
    {list[i] : i \in {j \in 1..Len(list) : Trim(list[j]) # EmptyStr}}

\* how often a string occurs in a list
Occurrences(list, x) == Cardinality({i \in 1..Len(list) : list[i] = x})

\* C12: cleanMerchantNames never calls cleanMerchantName twice for one string
\* nor for a string that is blank or not in the list, and when it returns it
\* has called it exactly once for every distinct non-blank string of the list
\* and the map returned has exactly those strings as keys
C12_OneCallPerDistinctName ==
    LET want == NonBlankStrings(bulk.merchantNames)
    IN  /\ \A i \in 1..Len(bulk.calls) :
              bulk.calls[i] \in want /\ Occurrences(bulk.calls, bulk.calls[i]) = 1
        /\ bulk.pc = "done" =>
              /\ \A x \in want : Occurrences(bulk.calls, x) = 1
              /\ DOMAIN bulk.results = want

\* a list with one name twice, then another, was cleaned with two calls
C12_Witness ==
    /\ bulk.pc = "done"
    /\ Len(bulk.merchantNames) = 3
    /\ bulk.merchantNames[1] = bulk.merchantNames[2]
    /\ bulk.merchantNames[3] \notin {bulk.merchantNames[1], EmptyStr, Blank}
    /\ Len(bulk.calls) = 2
    /\ Cardinality(DOMAIN bulk.results) = 2


\* the names two of which findSimilarMerchants put in one proposed group
GroupedTogether(a, b) ==
    \E g \in 1..Len(similar.groups) :
        LET names == {similar.groups[g].merchants[i].name :
                         i \in 1..Len(similar.groups[g].merchants)}
        IN  a \in names /\ b \in names

AnalysedNames == {similar.merchants[i] : i \in 1..Len(similar.merchants)}

\* the key as the words give it: lowercased, the trailing run of digits, '#',
\* '-' and whitespace stripped, the trailing business word stripped, every
\* remaining character that is not a letter or digit removed, trimmed
KeyInWords(merchant) ==
    Trim(RemoveNonAlphanumeric(
        StripBusinessSuffix(StripTrailingRun(ToLowerCase(merchant)))))

KeyInWordsOf == [merchant \in MerchantPool |-> KeyInWords(merchant)]

\* C13, as stated: two distinct names analysed are in one proposed group
\* exactly when their keys, every non-alphanumeric character removed, are
\* equal, and a name whose key is no other's is in no group
C13_GroupedIffKeysInWordsEqual ==
    \A a \in AnalysedNames :
        /\ \A b \in AnalysedNames \ {a} :
              GroupedTogether(a, b) <=> KeyInWordsOf[a] = KeyInWordsOf[b]
        /\ GroupedTogether(a, a) <=>
              \E b \in AnalysedNames \ {a} : KeyInWordsOf[a] = KeyInWordsOf[b]

\* C13, amended: two distinct names analysed are in one proposed group exactly
\* when their normalized keys are equal, where the key keeps inner whitespace
\* and underscores; a name whose key is no other's is in no group
C13_GroupedIffNormalizedEqual ==
    \A a \in AnalysedNames :
        /\ \A b \in AnalysedNames \ {a} :
              GroupedTogether(a, b) <=> NormalizedOf[a] = NormalizedOf[b]
        /\ GroupedTogether(a, a) <=>
              \E b \in AnalysedNames \ {a} : NormalizedOf[a] = NormalizedOf[b]

\* three names were analysed: two share a key and are grouped, the third,
\* which differs from them by an inner space only, is in no group
C13_Witness ==
    /\ similar.pc = "shown"
    /\ Len(similar.merchants) = 3
    /\ Len(similar.groups) = 1
    /\ \E a, b, c \in AnalysedNames :
          /\ a # b /\ GroupedTogether(a, b) /\ ~GroupedTogether(c, c)
          /\ KeyInWordsOf[c] = KeyInWordsOf[a] /\ NormalizedOf[c] # NormalizedOf[a]


\* C14: when getFilteredRows has just run with the month period, a row whose
\* date parses is returned exactly when its date lies in the calendar month
\* and year of the clock at that run
C14_MonthFilterFollowsNow ==
    (view.returned.ran /\ view.currentPeriod = "month") =>
        \A i \in DOMAIN view.transactions :
            LET d == DateParseOf[view.transactions[i].date].day
            IN  ~DateParseOf[view.transactions[i].date].isNaN =>
                  (i \in view.returned.rows <=>
                      /\ GetMonth(d) = GetMonth(view.now.day)
                      /\ GetFullYear(d) = GetFullYear(view.now.day))

\* C15: when getFilteredRows has just run, whatever the period, no row whose
\* date cell is empty or does not parse is among the rows returned
C15_UnparsableDateExcluded ==
    view.returned.ran =>
        \A i \in view.returned.rows :
            /\ view.transactions[i].date # EmptyStr
            /\ ~DateParseOf[view.transactions[i].date].isNaN

\* the filter ran at the payweek period over a row with a payweek value and a
\* date that does not parse, next to a row that was returned
C15_Witness ==
    /\ view.returned.ran
    /\ view.currentPeriod = "payweek"
    /\ view.returned.rows # {}
    /\ \E i \in DOMAIN view.transactions :
          /\ DateParseOf[view.transactions[i].date].isNaN
          /\ view.transactions[i].date # EmptyStr
          /\ view.transactions[i].payweek # EmptyStr


\* C16: for every period, converting an amount just entered to the base and
\* back gives the amount, and converting a stored base amount to the period
\* and back gives the base amount; the stored amount of the category just
\* entered converts back to what was entered, the amounts just drawn convert
\* to the stored ones; and payweek is the base, a week half of it, a month
\* 26/12 of it and a year 26 times it
C16_ConversionsAreInverse ==
    /\ \A p \in Periods :
          /\ budget.entered.is =>
                ConvertBudgetFromBase(ConvertBudgetToBase(budget.entered.amount, p), p)
                    = budget.entered.amount
          /\ \A c \in DOMAIN budget.budgets :
                ConvertBudgetToBase(ConvertBudgetFromBase(budget.budgets[c], p), p)
                    = budget.budgets[c]
    /\ budget.entered.is =>
          ConvertBudgetFromBase(budget.budgets[budget.entered.category],
                                budget.entered.period) = budget.entered.amount
    /\ budget.drawn.is =>
          \A c \in DOMAIN budget.budgets :
              ConvertBudgetToBase(budget.drawn.amounts[c], budget.budgetPeriod)
                  = budget.budgets[c]
    /\ \A c \in DOMAIN budget.budgets :
          LET b == budget.budgets[c]
          IN  /\ ConvertBudgetFromBase(b, "payweek") = b
              /\ Times(ConvertBudgetFromBase(b, "week"), 2) = b
              /\ Times(ConvertBudgetFromBase(b, "month"), 12) = Times(b, 26)
              /\ ConvertBudgetFromBase(b, "year") = Times(b, 26)

\* 12.5 was entered for a category with the month period selected and 75/13
\* is stored for it
C16_Witness ==
    /\ budget.entered.is
    /\ budget.entered.period = "month"
    /\ budget.entered.amount = [n |-> 25, d |-> 2]
    /\ budget.budgets[budget.entered.category] = [n |-> 75, d |-> 13]


\* enableMerchantEditingCache has run in the step: the cache is enabled with no
\* changed row afterwards and is not what it was before (nothing else leaves
\* an enabled cache without changed rows)
EnableRan ==
    /\ merchantEditingCache'.enabled
    /\ merchantEditingCache'.changedRows = {}
    /\ merchantEditingCache' # merchantEditingCache

\* C17: no step runs enable() on a cache that is enabled with changed rows,
\* nor while a flush awaits the store
C17_EnableOnlyAfterDisable ==
    [][EnableRan =>
          /\ ~(merchantEditingCache.enabled /\ merchantEditingCache.changedRows # {})
          /\ flight.status # "pending"]_vars


\* the step replaces the row table by a reload or clears it by disconnect
TableReplaced ==
    \/ \E old \in GroupInputs, new \in GroupInputs : RenameGroupInDialog(old, new)
    \/ \E g \in GroupInputs : DeleteGroupInDialog(g)
    \/ \E dataRows \in InitTables : LoadDataDone(dataRows)
    \/ Disconnect

\* C18: a step that reloads or clears the row table leaves the editing cache
\* disabled, with no snapshot and no changed row
C18_ReloadDisablesCache ==
    [][TableReplaced => merchantEditingCache' = DisabledCache]_vars

(***************************************************************************)
(* C19, C20: what a flush sends.                                           *)
(***************************************************************************)
\* a step in which commitCachedChanges issues its writes
FlushStarts == flight.status = "idle" /\ flight'.status = "pending"

\* C19: a flush sends one write per changed row (the writes are a function of
\* the row index), and the value written for a row is the group given by the
\* most recent apply that touched the row before the flush started
C19_FlushSendsLastApplied ==
    [][FlushStarts =>
          \A r \in DOMAIN flight'.issued :
              /\ r \in DOMAIN session.applied
              /\ flight'.issued[r] = session.applied[r]]_vars

\* the write requests of the flush that awaits the store: commitCachedChanges
\* calls updateCell once for each changed row
FlushRequests ==
    {[request |-> "UPDATE", row |-> r, value |-> flight.issued[r]] :
        r \in DOMAIN flight.issued}

\* C20: a flush that awaits the store has sent its changed cells in exactly one
\* write request, and that request is a batch write
C20_FlushIsOneBatchRequest ==
    flight.status = "pending" =>
        /\ Cardinality(FlushRequests) = 1
        /\ \A q \in FlushRequests : q.request = "BATCH_UPDATE"

(***************************************************************************)
(* C23, C24: what the regex cleaner returns.                               *)
(***************************************************************************)
\* a name with at least one non-whitespace character
HasNonWhitespace(name) == Truthy(name) /\ Truthy(Trim(name))

\* C23: for a raw name with a non-whitespace character, cleanWithRegex returns a
\* name with a non-whitespace character, and so does cleanMerchantName when no
\* API key is configured
C23_NeverCleanedToEmpty ==
    /\ (cleaner.regexIn \in NameInputs \cup BrandInputs
            /\ HasNonWhitespace(cleaner.regexIn)) =>
          HasNonWhitespace(cleaner.regexOut)
    /\ (cleaner.via = "no-key" /\ HasNonWhitespace(cleaner.merchantName)) =>
          HasNonWhitespace(cleaner.returned)

\* C24: a call of cleanWithRegex with the name of the call before it, on the
\* same cleaner, returns what that call returned
C24_SameNameSameResult ==
    [][(cleaner'.regexIn = cleaner.regexIn /\ cleaner.regexIn \in NameInputs) =>
          cleaner'.regexOut = cleaner.regexOut]_vars

(***************************************************************************)
(* C26, C27: the display name of a proposed group.                         *)
(***************************************************************************)
\* the characters a name is split on: whitespace, digits, '#', '-'
IsSeparator(c) == c \in Space \cup Digit \cup {"#", "-"}

\* what precedes the first separator of a name
RECURSIVE LeadingToken(_)
LeadingToken(str) ==
    IF str = << >> \/ IsSeparator(Head(str)) THEN << >>
    ELSE <<Head(str)>> \o LeadingToken(Tail(str))

LeadingTokenOf == [merchant \in MerchantPool |-> LeadingToken(merchant)]

\* where a name stands in the input
InputIndex(name) ==
    CHOOSE i \in 1..Len(similar.merchants) : similar.merchants[i] = name

\* the member of a group with the highest count, the first of the input among
\* those with that count
BestMember(group) ==
    LET ms == {group.merchants[i] : i \in 1..Len(group.merchants)}
        top == {m \in ms : \A o \in ms : o.count <= m.count}
    IN  CHOOSE m \in top : \A o \in top : InputIndex(m.name) <= InputIndex(o.name)

\* C26: the display name of each proposed group is the first token of the raw
\* name of its member with the highest count, the first of the input among the
\* members with that count
C26_NameFromBestMember ==
    similar.pc = "shown" =>
        \A g \in 1..Len(similar.groups) :
            similar.groups[g].groupName =
                Trim(LeadingTokenOf[BestMember(similar.groups[g]).name])

\* a group of two members with different first tokens and the same count: the
\* first of the input names the group
C26_Witness ==
    /\ similar.pc = "shown"
    /\ \E g \in 1..Len(similar.groups) :
          LET ms == similar.groups[g].merchants
          IN  /\ Len(ms) = 2
              /\ LeadingTokenOf[ms[1].name] # LeadingTokenOf[ms[2].name]
              /\ InputIndex(ms[1].name) < InputIndex(ms[2].name)
              /\ ms[1].count = ms[2].count
              /\ similar.groups[g].groupName = LeadingTokenOf[ms[1].name]

\* C27: every proposed group has a non-empty display name
C27_GroupNameNotEmpty ==
    similar.pc = "shown" =>
        \A g \in 1..Len(similar.groups) : similar.groups[g].groupName # << >>

(***************************************************************************)
(* C25: the payweek period.                                                *)
(***************************************************************************)
\* January 1 of a year of the calendar, as a day; 2024 has 366 days
JanuaryFirst(year) == IF year = 2025 THEN FirstDayOf(2) ELSE FirstDayOf(2) - 366

\* the start of the 14-day bucket that contains now, buckets counted from
\* January 1 of now's year
BucketStart(now) ==
    LET jan1 == JanuaryFirst(GetFullYear(now.day))
    IN  jan1 + ((now.day - jan1) \div 14) * 14

\* C25: when getFilteredRows has just run with the payweek period, a row whose
\* date parses is returned exactly when its date is on or after the start of
\* the 14-day bucket, anchored at January 1, that contains the clock's instant
C25_PayweekIsAnchoredBucket ==
    (view.returned.ran /\ view.currentPeriod = "payweek") =>
        \A i \in DOMAIN view.transactions :
            (Truthy(view.transactions[i].date)
                /\ ~DateParseOf[view.transactions[i].date].isNaN) =>
                (i \in view.returned.rows <=>
                    DateParseOf[view.transactions[i].date].day
                        >= BucketStart(view.now))

(***************************************************************************)
(* C29: the budget kept for a category and what the budgets view shows.    *)
(***************************************************************************)
\* C29: the budget kept for the category of the updateBudget that just ran is
\* the amount entered converted to the base, and the budgets view as last
\* drawn shows, for every category a budget was entered for, the base amount
\* of its last updateBudget converted to the selected period
C29_ViewShowsKeptBudget ==
    /\ budget.entered.is =>
          budget.budgets[budget.entered.category] =
              ConvertBudgetToBase(budget.entered.amount, budget.entered.period)
    /\ budget.drawn.is =>
          \A c \in DOMAIN budget.base :
              budget.drawn.amounts[c] =
                  ConvertBudgetFromBase(budget.base[c], budget.budgetPeriod)

(***************************************************************************)
(* C22: the cell references written.                                       *)
(***************************************************************************)
RECURSIVE ColumnName(_)
\* the alphabetic name of the column of 0-based index c: A..Z, AA, AB, ...
ColumnName(c) ==
    IF c < 26 THEN <<UpperLetters[c + 1]>>
    ELSE ColumnName((c \div 26) - 1) \o <<UpperLetters[(c % 26) + 1]>>

\* the reference of the update is the alphabetic name of the merchant-group
\* column followed by the number of its table row plus one
RefersToCell(update) ==
    update.range = ColumnName(auto.merchantGroup) \o NumberToString(update.row + 1)

\* C22: every cell reference the auto-clean sends to the store, or hands to the
\* review dialog to be sent, for table row i is the alphabetic name of the
\* merchant-group column followed by i + 1, and numberToLetter, which the other
\* write paths use, gives that name
C22_CellReferences ==
    /\ \A c \in MerchantGroupIndices : NumberToLetter(c + 1) = ColumnName(c)
    /\ \A k \in DOMAIN auto.inFlight : RefersToCell(auto.inFlight[k])
    /\ \A k \in DOMAIN auto.pendingMerchantUpdates :
          RefersToCell(auto.pendingMerchantUpdates[k])

(***************************************************************************)
(* C21: the local merchant groups and the store's.                         *)
(***************************************************************************)
\* C21: once the auto-clean is over, with no review dialog open and no write
\* in flight, every row's local merchant group is the value the store holds
C21_LocalEqualsStore ==
    auto.pc = "idle" =>
        \A i \in DOMAIN auto.rows : auto.rows[i].group = auto.store[i]

(***************************************************************************)
(* C30: what autoCleanNewMerchants leaves alone.                           *)
(***************************************************************************)
\* rows of the table at the start that give row i's merchant a group
GroupedElsewhere(i) ==
    {j \in DOMAIN auto.start :
        /\ Trim(auto.start[j].group) # EmptyStr
        /\ Trim(auto.start[j].merchant) = Trim(auto.start[i].merchant)}

\* C30: a row that had a non-blank merchant group at the start keeps it and has
\* no write queued; no merchant cell changes; a row with a merchant and a blank
\* group whose merchant has a group on another row holds that group (trimmed),
\* has it queued, and its merchant was not sent to the cleaner
C30_OnlyBlankRowsFilled ==
    auto.pc \in {"writing", "review", "idle"} =>
        \A i \in DOMAIN auto.start :
            /\ auto.rows[i].merchant = auto.start[i].merchant
            /\ Trim(auto.start[i].group) # EmptyStr =>
                  /\ auto.rows[i].group = auto.start[i].group
                  /\ \A k \in DOMAIN auto.queued : auto.queued[k].row # i
            /\ (/\ Trim(auto.start[i].group) = EmptyStr
                /\ Trim(auto.start[i].merchant) # EmptyStr
                /\ GroupedElsewhere(i) # {}) =>
                  /\ auto.rows[i].group \in
                         {Trim(auto.start[j].group) : j \in GroupedElsewhere(i)}
                  /\ \E k \in DOMAIN auto.queued :
                         /\ auto.queued[k].row = i
                         /\ auto.queued[k].value = auto.rows[i].group
                  /\ Trim(auto.start[i].merchant) \notin auto.sent

\* the review dialog is open over a table in which one row kept its group, one
\* blank row took the group its merchant has on that row, and one blank row
\* took the cleaner's name
C30_Witness ==
    /\ auto.pc = "review"
    /\ \E i, j, h \in DOMAIN auto.start :
          /\ auto.start[i] = [merchant |-> mX, group |-> gSpG]
          /\ auto.start[j] = [merchant |-> mX, group |-> EmptyStr]
          /\ auto.rows[j].group = gG
          /\ auto.start[h] = [merchant |-> mY, group |-> EmptyStr]
          /\ auto.rows[h].group = <<"C">>
          /\ auto.sent = {mY}

(***************************************************************************)
(* C28: one group for each category.                                       *)
(***************************************************************************)
\* the names a list of the category manager may hold
CategoryNames ==
    {categoryManager.categories[k] : k \in DOMAIN categoryManager.categories}
    \cup UNION {{categoryManager.categoryGroups[g][k] :
                    k \in DOMAIN categoryManager.categoryGroups[g]} : g \in GroupNameSet}

\* the groups whose member list holds the name
GroupsHolding(name) ==
    {g \in GroupNameSet : \E k \in DOMAIN categoryManager.categoryGroups[g] :
                              categoryManager.categoryGroups[g][k] = name}

\* C28: every category name is in the member list of at most one group, and the
\* group the category views show for it is that group, or 'Personal' when it
\* is in no list
C28_OneGroupPerCategory ==
    \A name \in CategoryNames :
        /\ Cardinality(GroupsHolding(name)) <= 1
        /\ GroupShown(categoryManager.categoryGroups, name) \in
               IF GroupsHolding(name) = {} THEN {"Personal"} ELSE GroupsHolding(name)

=============================================================================
